---- MODULE Spec2Model ----
(***************************************************************************)
(* A model of paultag/go-archive: the publisher (Suite accumulation,       *)
(* Engross, Link, Decruft over the content-addressed blob store) and the   *)
(* verified reader (Archive.Suite, Suite.Packages, Suite.Sources).         *)
(***************************************************************************)
EXTENDS Integers, Sequences, FiniteSets, TLC

(***************************************************************************)
(* Bounds of the model.                                                    *)
(***************************************************************************)
\* packages one PackageWriter receives at most
MaxPkgs == 2
\* calls of Engross (each reads the clock once, in newRelease)
MaxEngross == 1
\* paragraphs (well-formed or not) an index file served to the reader holds
MaxIndexLen == 1
\* goroutines calling the Downloader at the same time
MaxProcs == 2
\* largest value of Downloader.Parallel
MaxParallel == 2
\* largest value of Downloader.MaxTransientRetries
MaxRetries == 1
\* hashers of the writer whose hashes the loop of Engross folds
MaxHashers == 3
\* entries the iterator given to LoadPackageMap / LoadSourceMap returns
MaxEntries == 3
\* the versions of those entries
MapVersions == 1..3

\* the suite being published, its possible components and architectures
SuiteName == "test"
CompNames == {"main"}
Arches == {"amd64", "i386"}
\* versions of the one package name that is added
Versions == {1, 2}

VARIABLES
    \* ---- blob store (blobstore.Store behind Archive.store)
    objects,      \* the committed objects the store holds
    links,        \* path -> object the path is linked to (NoObj: not linked)
    \* ---- publisher side Archive and Suite
    signingKey,   \* Archive.signingKey # nil
    components,   \* keys of Suite.components
    writers,      \* Component.packageWriters: <<component, arch>> -> packages encoded
    now,          \* the clock newRelease reads
    \* ---- Archive.Engross in progress
    ePc,          \* position inside Engross
    eRelease,     \* the Release being assembled
    ePendingComps,\* components the outer range loop has not visited yet
    ePending,     \* writers of the current component still to commit
    eArches,      \* arches: the architectures seen so far
    eFiles,       \* files: path -> object (the map Engross returns)
    eErr,         \* the error Engross returned ("" is nil)
    \* ---- Archive.Link in progress
    lPc,          \* position inside Link
    lBlobs,       \* the map Link was given
    lTodo,        \* paths the range loop has not visited yet
    lErr,         \* the error Link returned ("" is nil)
    lBefore,      \* the path -> object mapping when this Link started
    \* ---- what the last step was
    lastCall,     \* the store primitives the last step issued
    cHandle,      \* the *Component the last step returned, if it returned one
    aErr,         \* the error the last AddPackage returned ("" is nil)
    \* ---- reader side Archive (root, pathReader, keyring) and its Suite
    rDoc,         \* what dists/<name>/InRelease was when Suite(name) read it
    rSuite,       \* the *Suite that Suite(name) returned (present: not nil)
    rSuiteErr,    \* the error Suite(name) returned ("" is nil)
    rRes,         \* the last Packages / Sources call: its inputs and results
    \* ---- the Downloader (DefaultDownloader) and the goroutines calling it
    dCfg,         \* Parallel, MaxTransientRetries, LocalMirror # ""
    dOnce,        \* Downloader.once has run
    dKeyring,     \* Downloader.keyring holds the archive keyring
    dPool,        \* number of values in pool.ch
    dProc,        \* goroutine -> the call it is making and where it is in it
    dTemp,        \* the temporary files that exist, named by their creator
    dCache,       \* releaseCache: suite -> cachedRelease
    dFetches,     \* suite -> DefaultDownloader.Release calls CachedRelease made
    dRDs,         \* the ReleaseDownloaders that Release has returned
    \* ---- the hasher loop of Engross over one writer's hashers
    fHashers,     \* the algorithms of the hashers the loop has yet to reach
    fFolded,      \* the FileHashes handed to AddHash and what it answered
    fRelease,     \* the Release being built
    fRet,         \* "" in the loop, then how Engross left the loop
    \* ---- LoadPackageMap / LoadSourceMap and the map they build
    mKind,        \* which of the two loaders runs
    mIn,          \* the entries the iterator returns, in order
    mPos,         \* how many of them Next has returned
    mEnd,         \* the error Next returns after the last entry
    mRet,         \* ret, the map under construction
    mPc,          \* "loading" or "returned"
    mOut,         \* the returned map (nil or not)
    mErr,         \* the returned error ("" is nil)
    mMatch,       \* the last SourceMap.Matches call: its input and results
    \* ---- Pool.IncludeSources / Pool.IncludeDeb and the store they link in
    pOp,          \* the call that runs or ran last
    pPc,          \* "idle", "copy", "link", "returned" or "panicked"
    pTodo,        \* the local files IncludeSources has yet to Copy
    pDir,         \* targetDir
    pFiles,       \* files: pool path -> object
    pLinked,      \* the paths the call has linked
    pStore,       \* the store's mapping: path -> object
    pBefore,      \* the store's mapping when the call began
    pBlobs,       \* the objects committed to the store
    pCopy,        \* the last Pool.Copy: its path, its failure, what it returned
    pRet          \* what the call returned

pubVars == <<objects, links, signingKey, components, writers, now,
             ePc, eRelease, ePendingComps, ePending, eArches, eFiles, eErr,
             lPc, lBlobs, lTodo, lErr, lBefore, lastCall, cHandle, aErr>>

readVars == <<rDoc, rSuite, rSuiteErr, rRes>>

dlVars == <<dCfg, dOnce, dKeyring, dPool, dProc, dTemp, dCache, dFetches, dRDs>>

foldVars == <<fHashers, fFolded, fRelease, fRet>>

mapVars == <<mKind, mIn, mPos, mEnd, mRet, mPc, mOut, mErr, mMatch>>

poolVars == <<pOp, pPc, pTodo, pDir, pFiles, pLinked, pStore, pBefore, pBlobs, pCopy, pRet>>

vars == <<pubVars, readVars, dlVars, foldVars, mapVars, poolVars>>

(***************************************************************************)
(* Paths and objects.                                                      *)
(***************************************************************************)
NoObj == <<>>
\* no *Component was returned
NoHandle == [name |-> "", created |-> FALSE]


\* the errors of the publisher: encodeSigned's and encodeClearsigned's, and
\* whatever a failed store write or signing step returns
NoSigningKey == "No signing key loaded"
StoreError == "store error"
EmptyMap == [p \in {} |-> NoObj]

\* path.Join(name, fmt.Sprintf("binary-%s", arch), "Packages"); the element
\* binary-<arch> is spelled as its two pieces
SuitePath(name, arch) == <<name, "binary-", arch, "Packages">>
\* path.Join("dists", suite.Name, suitePath)
IndexPath(name, arch) == <<"dists", SuiteName>> \o SuitePath(name, arch)
ReleasePath == <<"dists", SuiteName, "Release">>
ReleaseGpgPath == <<"dists", SuiteName, "Release.gpg">>
InReleasePath == <<"dists", SuiteName, "InRelease">>

IndexPaths == {IndexPath(c, a) : c \in CompNames, a \in Arches}
Paths == IndexPaths \cup {ReleasePath, ReleaseGpgPath, InReleasePath}

WriterKeys == CompNames \X Arches

\* The store is content addressed: an object is its content.
PackagesObject(arch, pkgs) == <<"Packages", arch, pkgs>>
ReleaseObject(release) == <<"Release", release>>
SignatureObject(release) == <<"Release.gpg", release>>
InReleaseObject(release) == <<"InRelease", release>>

\* objects some published path is linked to
Linked(l) == {l[p] : p \in Paths} \ {NoObj}

(***************************************************************************)
(* Packages, paragraphs and hashes.                                        *)
(***************************************************************************)
\* suite.features.Hashes as Archive.Suite sets them
SuiteHashes == {"sha256", "sha1", "sha512"}
StrongAlgorithms == {"sha256", "sha512"}
KnownAlgorithms == {"sha256", "sha1", "sha512", "md5"}

\* the packages a caller may add
Package == [Package : {"A"}, Version : Versions, Architecture : Arches]

\* control.Encoder.Encode: one paragraph per package, fields in struct order
EncodeParagraph(pkg) == <<"Package", pkg.Package, "Version", pkg.Version,
                          "Architecture", pkg.Architecture>>

\* a digest is the ideal one: equal digests mean equal algorithm and input
Digest(algorithm, bytes) == <<algorithm, bytes>>

\* control.FileHashFromHasher(path, hasher) for a hasher that received bytes
FileHashFromHasher(path, algorithm, bytes) ==
    [Algorithm |-> algorithm, Filename |-> path,
     Digest |-> Digest(algorithm, bytes), Size |-> Len(bytes)]

\* Release.AddHash: append to the list of the hash's algorithm; ok is FALSE
\* for an algorithm the switch does not know
AddHash(r, h) ==
    CASE h.Algorithm = "sha256" ->
            [ok |-> TRUE, release |-> [r EXCEPT !.SHA256 = @ \cup {h}]]
      [] h.Algorithm = "sha1" ->
            [ok |-> TRUE, release |-> [r EXCEPT !.SHA1 = @ \cup {h}]]
      [] h.Algorithm = "sha512" ->
            [ok |-> TRUE, release |-> [r EXCEPT !.SHA512 = @ \cup {h}]]
      [] h.Algorithm = "md5" ->
            [ok |-> TRUE, release |-> [r EXCEPT !.MD5Sum = @ \cup {h}]]
      [] OTHER -> [ok |-> FALSE, release |-> r]

\* (mutant) Indices keyed over all four hash lists, MD5Sum and SHA1 included
IndicesAll(r) ==
    [f \in {h.Filename : h \in r.SHA256 \cup r.SHA512 \cup r.MD5Sum \cup r.SHA1} |->
        {h \in r.SHA256 \cup r.SHA512 \cup r.MD5Sum \cup r.SHA1 : h.Filename = f}]

\* Release.Indices: the SHA256 and SHA512 entries by file name, nothing else
Indices(r) ==
    [f \in {h.Filename : h \in r.SHA256 \cup r.SHA512} |->
        {h \in r.SHA256 \cup r.SHA512 : h.Filename = f}]

\* Suite.newRelease: the empty Release of the suite, dated when
NewRelease(when) ==
    [Suite |-> SuiteName, Date |-> when, Components |-> <<>>,
     Architectures |-> <<>>, MD5Sum |-> {}, SHA1 |-> {}, SHA256 |-> {},
     SHA512 |-> {}]

NoRelease == NewRelease(0)

\* newPackageWriter: the blob handle and one hasher per hash of the suite,
\* each with the bytes it has received so far
NewPackageWriter == [handle |-> <<>>, hashers |-> [a \in SuiteHashes |-> <<>>]]

\* (mutant) the encoder writes to the blob handle alone
PackageWriterAddHandleOnly(w, pkg) ==
    [w EXCEPT !.handle = Append(@, EncodeParagraph(pkg))]

\* (mutant) a paragraph the blob already holds is not written again
PackageWriterAddOnce(w, pkg) ==
    IF \E i \in DOMAIN w.handle : w.handle[i] = EncodeParagraph(pkg)
    THEN w
    ELSE [handle |-> Append(w.handle, EncodeParagraph(pkg)),
          hashers |-> [a \in DOMAIN w.hashers |->
                         Append(w.hashers[a], EncodeParagraph(pkg))]]

\* PackageWriter.Add: the encoder writes the paragraph to
\* io.MultiWriter(handle, hashers...)
PackageWriterAdd(w, pkg) ==
    [handle |-> Append(w.handle, EncodeParagraph(pkg)),
     hashers |-> [a \in DOMAIN w.hashers |->
                    Append(w.hashers[a], EncodeParagraph(pkg))]]

\* (mutant) only the sha1 hasher's hash is folded in
FoldHashesSha1Only(r, suitePath, hashers) ==
    AddHash(r, FileHashFromHasher(suitePath, "sha1", hashers["sha1"])).release

\* the hashes of one writer folded into the Release, AddHash's result unread
FoldHashes(r, suitePath, hashers) ==
    LET seq == <<"sha256", "sha1", "sha512">>
        fold[i \in 0..Len(seq)] ==
            IF i = 0 THEN r
            ELSE AddHash(fold[i - 1],
                         FileHashFromHasher(suitePath, seq[i],
                                            hashers[seq[i]])).release
    IN fold[Len(seq)]

(***************************************************************************)
(* The blob store's primitives, as the publisher uses them.                *)
(***************************************************************************)
\* store.Commit: the written content becomes an object of the store
StoreCommit(objs, content) == objs \cup {content}

\* store.Link(obj, path): path now names obj
StoreLink(l, obj, path) == [l EXCEPT ![path] = obj]

\* (mutant) the collector keeps only what the Release files are linked to
StoreGCReleaseOnly(objs, l) ==
    objs \cap {l[ReleasePath], l[ReleaseGpgPath], l[InReleasePath]}

\* store.GC(DumbGarbageCollector{}): drop the objects no path is linked to
StoreGC(objs, l) == objs \cap Linked(l)

\* the elements of a set as a sequence, in each possible order (the order of
\* a range loop over a Go map)
Orders(S) == {q \in [1..Cardinality(S) -> S] : \A x \in S : \E i \in DOMAIN q : q[i] = x}

(***************************************************************************)
(* Construction.                                                           *)
(***************************************************************************)
\* The tree an earlier run published at the store's path, if any: the suite
\* with one package for amd64 in main, engrossed at time 0 and linked.
OldIndex == <<EncodeParagraph([Package |-> "A", Version |-> 1, Architecture |-> "amd64"])>>
OldRelease ==
    [FoldHashes(NewRelease(0), SuitePath("main", "amd64"),
                [a \in SuiteHashes |-> OldIndex])
        EXCEPT !.Components = <<"main">>, !.Architectures = <<"amd64">>]
OldTree ==
    [p \in Paths |->
        CASE p = IndexPath("main", "amd64") -> PackagesObject("amd64", OldIndex)
          [] p = ReleasePath -> ReleaseObject(OldRelease)
          [] p = ReleaseGpgPath -> SignatureObject(OldRelease)
          [] p = InReleasePath -> InReleaseObject(OldRelease)
          [] OTHER -> NoObj]

\* New(path, signer): the store as blobstore.Load finds it, empty or holding
\* an earlier tree; the signer may be nil
PubInit ==
    /\ links \in {[p \in Paths |-> NoObj], OldTree}
    /\ objects = Linked(links)
    /\ signingKey \in BOOLEAN
    /\ components = {}
    /\ writers = [k \in {} |-> NewPackageWriter]
    /\ now = 0
    /\ ePc = "idle"
    /\ eRelease = NoRelease
    /\ ePendingComps = {}
    /\ ePending = {}
    /\ eArches = {}
    /\ eFiles = EmptyMap
    /\ eErr = ""
    /\ lPc = "idle"
    /\ lBlobs = EmptyMap
    /\ lTodo = {}
    /\ lErr = ""
    /\ lBefore = links
    /\ lastCall = {}
    /\ cHandle = NoHandle /\ aErr = ""

storeVars == <<objects, links>>
suiteVars == <<components, writers>>
engrossVars == <<ePc, eRelease, ePendingComps, ePending, eArches, eFiles, eErr>>
linkVars == <<lPc, lBlobs, lTodo, lErr, lBefore>>

\* no publisher call is in progress
Quiet == ePc \in {"idle", "returned"} /\ lPc \in {"idle", "returned"}

\* Archive.Suite(name): a fresh Suite, with no components; the results of the
\* calls made with the previous Suite are dropped
ArchiveSuite ==
    /\ Quiet
    /\ now < MaxEngross
    /\ components' = {}
    /\ writers' = [k \in {} |-> NewPackageWriter]
    /\ ePc' = "idle"
    /\ eRelease' = NoRelease
    /\ ePendingComps' = {}
    /\ ePending' = {}
    /\ eArches' = {}
    /\ eFiles' = EmptyMap
    /\ eErr' = ""
    /\ lPc' = "idle"
    /\ lBlobs' = EmptyMap
    /\ lTodo' = {}
    /\ lErr' = ""
    /\ lBefore' = links
    /\ lastCall' = {}
    /\ cHandle' = NoHandle /\ aErr' = ""
    /\ UNCHANGED <<storeVars, signingKey, now>>

(***************************************************************************)
(* Accumulating: Suite.Component and Component.AddPackage.                 *)
(***************************************************************************)
\* (mutant) a later call puts a new Component, without writers, in the place
\* of the one the suite has
SuiteComponentReplacing(name) ==
    /\ Quiet /\ ePc = "idle"
    /\ components' = components \cup {name}
    /\ writers' = [k \in {j \in DOMAIN writers : j[1] # name} |-> writers[k]]
    /\ cHandle' = [name |-> name, created |-> name \notin components] /\ aErr' = ""
    /\ lastCall' = {}
    /\ UNCHANGED <<storeVars, signingKey, now, engrossVars, linkVars>>

\* Suite.Component(name): get or create; the Component returned for a name
\* the suite has is a copy that shares the packageWriters map
SuiteComponent(name) ==
    /\ Quiet /\ ePc = "idle"
    /\ components' = components \cup {name}
    /\ cHandle' = [name |-> name, created |-> name \notin components] /\ aErr' = ""
    /\ lastCall' = {}
    /\ UNCHANGED <<storeVars, signingKey, writers, now, engrossVars, linkVars>>

\* (mutant) getWriter makes a new writer on every call
AddPackageRecreating(name, pkg, createOk) ==
    LET k == <<name, pkg.Architecture>> IN
    /\ Quiet /\ ePc = "idle"
    /\ name \in components
    /\ k \in DOMAIN writers => Len(writers[k].handle) < MaxPkgs
    /\ lastCall' = {"Create"}
    /\ cHandle' = NoHandle
    /\ IF createOk
       THEN /\ writers' = [j \in DOMAIN writers \cup {k} |->
                             IF j = k
                             THEN PackageWriterAdd(NewPackageWriter, pkg)
                             ELSE writers[j]]
            /\ aErr' = ""
       ELSE /\ writers' = writers
            /\ aErr' = StoreError
    /\ UNCHANGED <<storeVars, signingKey, components, now, engrossVars, linkVars>>

\* Component.AddPackage(pkg) on the component name: getWriter creates the
\* writer of pkg.Architecture on first use (store.Create may fail, and then
\* no writer is registered), PackageWriter.Add encodes the paragraph
AddPackage(name, pkg, createOk) ==
    LET k == <<name, pkg.Architecture>> IN
    /\ Quiet /\ ePc = "idle"
    /\ name \in components
    /\ IF k \in DOMAIN writers
       THEN /\ Len(writers[k].handle) < MaxPkgs
            /\ writers' = [writers EXCEPT ![k] = PackageWriterAdd(@, pkg)]
            /\ lastCall' = {}
            /\ cHandle' = NoHandle
            /\ aErr' = ""
       ELSE /\ lastCall' = {"Create"}
            /\ cHandle' = NoHandle
            /\ IF createOk
               THEN /\ writers' = [j \in DOMAIN writers \cup {k} |->
                                     IF j = k
                                     THEN PackageWriterAdd(NewPackageWriter, pkg)
                                     ELSE writers[j]]
                    /\ aErr' = ""
               ELSE /\ writers' = writers
                    /\ aErr' = StoreError
    /\ UNCHANGED <<storeVars, signingKey, components, now, engrossVars, linkVars>>

(***************************************************************************)
(* Archive.Engross, one step per store write.                              *)
(***************************************************************************)
\* (mutant) Engross returns the files gathered so far together with the error
EngrossFailsKeepingFiles(err) ==
    /\ ePc' = "returned"
    /\ eFiles' = eFiles
    /\ eErr' = err

\* Engross returns (nil, err)
EngrossFails(err) ==
    /\ ePc' = "returned"
    /\ eFiles' = EmptyMap
    /\ eErr' = err

\* suite.newRelease() and the empty files and arches maps
EngrossBegin ==
    /\ Quiet
    /\ now < MaxEngross
    /\ now' = now + 1
    /\ eRelease' = NewRelease(now')
    /\ eFiles' = EmptyMap
    /\ eArches' = {}
    /\ ePendingComps' = components
    /\ ePending' = {}
    /\ ePc' = "components"
    /\ eErr' = ""
    /\ lPc' = "idle"
    /\ lBlobs' = EmptyMap
    /\ lTodo' = {}
    /\ lErr' = ""
    /\ lBefore' = links
    /\ lastCall' = {}
    /\ cHandle' = NoHandle /\ aErr' = ""
    /\ UNCHANGED <<storeVars, signingKey, suiteVars>>

\* (mutant) the outer loop does not record the component's name
EngrossComponentUnnamed(name) ==
    /\ ePc = "components"
    /\ ePending = {}
    /\ name \in ePendingComps
    /\ ePendingComps' = ePendingComps \ {name}
    /\ eRelease' = eRelease
    /\ ePending' = {k \in DOMAIN writers : k[1] = name}
    /\ lastCall' = {}
    /\ cHandle' = NoHandle /\ aErr' = ""
    /\ UNCHANGED <<storeVars, signingKey, suiteVars, now, ePc, eArches, eFiles,
                   eErr, linkVars>>

\* the outer loop reaches the component name
EngrossComponent(name) ==
    /\ ePc = "components"
    /\ ePending = {}
    /\ name \in ePendingComps
    /\ ePendingComps' = ePendingComps \ {name}
    /\ eRelease' = [eRelease EXCEPT !.Components = Append(@, name)]
    /\ ePending' = {k \in DOMAIN writers : k[1] = name}
    /\ lastCall' = {}
    /\ cHandle' = NoHandle /\ aErr' = ""
    /\ UNCHANGED <<storeVars, signingKey, suiteVars, now, ePc, eArches, eFiles,
                   eErr, linkVars>>

\* the inner loop commits the writer k and records its hashes and its path
EngrossCommitWriter(k, ok) ==
    /\ ePc = "components"
    /\ k \in ePending
    /\ lastCall' = {"Commit"}
    /\ cHandle' = NoHandle /\ aErr' = ""
    /\ eArches' = eArches \cup {k[2]}
    /\ IF ok
       THEN /\ objects' = StoreCommit(objects,
                                       PackagesObject(k[2], writers[k].handle))
            /\ eRelease' = FoldHashes(eRelease, SuitePath(k[1], k[2]),
                                      writers[k].hashers)
            /\ eFiles' = [p \in DOMAIN eFiles \cup {IndexPath(k[1], k[2])} |->
                             IF p = IndexPath(k[1], k[2])
                             THEN PackagesObject(k[2], writers[k].handle)
                             ELSE eFiles[p]]
            /\ ePending' = ePending \ {k}
            /\ UNCHANGED <<ePc, eErr>>
       ELSE /\ EngrossFails(StoreError)
            /\ UNCHANGED <<objects, eRelease, ePending>>
    /\ UNCHANGED <<links, signingKey, suiteVars, now, ePendingComps, linkVars>>

\* release.Architectures from arches, then encodeSigned up to store.Create
EngrossSigned(archOrder, ok) ==
    /\ ePc = "components"
    /\ ePending = {} /\ ePendingComps = {}
    /\ archOrder \in Orders(eArches)
    /\ eRelease' = [eRelease EXCEPT !.Architectures = archOrder]
    /\ IF ~signingKey
       THEN /\ EngrossFails(NoSigningKey)
            /\ lastCall' = {}
            /\ cHandle' = NoHandle /\ aErr' = ""
       ELSE /\ lastCall' = {"Create"}
            /\ cHandle' = NoHandle /\ aErr' = ""
            /\ IF ok
               THEN /\ ePc' = "encode"
                    /\ UNCHANGED <<eFiles, eErr>>
               ELSE EngrossFails(StoreError)
    /\ UNCHANGED <<storeVars, signingKey, suiteVars, now, ePendingComps, ePending,
                   eArches, linkVars>>

\* (mutant) the Release is linked at its path as soon as it is committed
EngrossEncodeLinking(ok) ==
    /\ ePc = "encode"
    /\ lastCall' = {"Create", "Commit", "Link"}
    /\ cHandle' = NoHandle /\ aErr' = ""
    /\ IF ok
       THEN /\ objects' = StoreCommit(objects, ReleaseObject(eRelease))
            /\ links' = StoreLink(links, ReleaseObject(eRelease), ReleasePath)
            /\ ePc' = "sign"
            /\ UNCHANGED <<eFiles, eErr>>
       ELSE /\ EngrossFails(StoreError)
            /\ UNCHANGED <<objects, links>>
    /\ UNCHANGED <<signingKey, suiteVars, now, eRelease, ePendingComps,
                   ePending, eArches, linkVars>>

\* encodeSigned: a.encode(data, hash), the Release written and committed
EngrossEncode(ok) ==
    /\ ePc = "encode"
    /\ lastCall' = {"Create", "Commit"}
    /\ cHandle' = NoHandle /\ aErr' = ""
    /\ IF ok
       THEN /\ objects' = StoreCommit(objects, ReleaseObject(eRelease))
            /\ ePc' = "sign"
            /\ UNCHANGED <<eFiles, eErr>>
       ELSE /\ EngrossFails(StoreError)
            /\ UNCHANGED objects
    /\ UNCHANGED <<links, signingKey, suiteVars, now, eRelease, ePendingComps,
                   ePending, eArches, linkVars>>

\* encodeSigned: the signature signed, serialized and committed; Engross
\* records Release and Release.gpg
EngrossSign(ok) ==
    /\ ePc = "sign"
    /\ lastCall' = {"Commit"}
    /\ cHandle' = NoHandle /\ aErr' = ""
    /\ IF ok
       THEN /\ objects' = StoreCommit(objects, SignatureObject(eRelease))
            /\ eFiles' = [p \in DOMAIN eFiles \cup {ReleasePath, ReleaseGpgPath} |->
                             CASE p = ReleasePath -> ReleaseObject(eRelease)
                               [] p = ReleaseGpgPath -> SignatureObject(eRelease)
                               [] OTHER -> eFiles[p]]
            /\ ePc' = "clearsign"
            /\ UNCHANGED eErr
       ELSE /\ EngrossFails(StoreError)
            /\ UNCHANGED objects
    /\ UNCHANGED <<links, signingKey, suiteVars, now, eRelease, ePendingComps,
                   ePending, eArches, linkVars>>

\* (mutant) Engross returns files without recording InRelease
EngrossClearsignedUnrecorded(ok) ==
    /\ ePc = "clearsign"
    /\ IF ~signingKey
       THEN /\ EngrossFails(NoSigningKey)
            /\ lastCall' = {}
            /\ cHandle' = NoHandle /\ aErr' = ""
            /\ UNCHANGED objects
       ELSE /\ lastCall' = {"Create", "Commit"}
            /\ cHandle' = NoHandle /\ aErr' = ""
            /\ IF ok
               THEN /\ objects' = StoreCommit(objects, InReleaseObject(eRelease))
                    /\ ePc' = "returned"
                    /\ UNCHANGED <<eFiles, eErr>>
               ELSE /\ EngrossFails(StoreError)
                    /\ UNCHANGED objects
    /\ UNCHANGED <<links, signingKey, suiteVars, now, eRelease, ePendingComps,
                   ePending, eArches, linkVars>>

\* encodeClearsigned, then Engross records InRelease and returns files
EngrossClearsigned(ok) ==
    /\ ePc = "clearsign"
    /\ IF ~signingKey
       THEN /\ EngrossFails(NoSigningKey)
            /\ lastCall' = {}
            /\ cHandle' = NoHandle /\ aErr' = ""
            /\ UNCHANGED objects
       ELSE /\ lastCall' = {"Create", "Commit"}
            /\ cHandle' = NoHandle /\ aErr' = ""
            /\ IF ok
               THEN /\ objects' = StoreCommit(objects, InReleaseObject(eRelease))
                    /\ eFiles' = [p \in DOMAIN eFiles \cup {InReleasePath} |->
                                     IF p = InReleasePath
                                     THEN InReleaseObject(eRelease)
                                     ELSE eFiles[p]]
                    /\ ePc' = "returned"
                    /\ UNCHANGED eErr
               ELSE /\ EngrossFails(StoreError)
                    /\ UNCHANGED objects
    /\ UNCHANGED <<links, signingKey, suiteVars, now, eRelease, ePendingComps,
                   ePending, eArches, linkVars>>

(***************************************************************************)
(* Archive.Link, one step per store.Link call, and Archive.Decruft.        *)
(***************************************************************************)
\* Link(blobs) is called, once, with the map the last Engross returned
LinkBegin ==
    /\ lPc = "idle"
    /\ ePc = "returned" /\ eErr = ""
    /\ lBlobs' = eFiles
    /\ lTodo' = DOMAIN eFiles
    /\ lPc' = "linking"
    /\ lErr' = ""
    /\ lBefore' = links
    /\ lastCall' = {}
    /\ cHandle' = NoHandle /\ aErr' = ""
    /\ UNCHANGED <<storeVars, signingKey, suiteVars, now, engrossVars>>

\* the results store.Link(obj, path) may have: done, an I/O error, or an
\* error because the store no longer holds obj
LinkOutcomes(obj) == {"ok", "io"} \cup (IF obj \in objects THEN {} ELSE {"missing"})

\* one iteration of the range loop over blobs, in the map's order
LinkStep(path, outcome) ==
    /\ lPc = "linking"
    /\ path \in lTodo
    /\ outcome \in LinkOutcomes(lBlobs[path])
    /\ lastCall' = {"Link"}
    /\ cHandle' = NoHandle /\ aErr' = ""
    /\ IF outcome = "ok"
       THEN /\ links' = StoreLink(links, lBlobs[path], path)
            /\ lTodo' = lTodo \ {path}
            /\ lPc' = IF lTodo' = {} THEN "returned" ELSE "linking"
            /\ UNCHANGED lErr
       ELSE /\ lErr' = outcome
            /\ lPc' = "returned"
            /\ UNCHANGED <<links, lTodo>>
    /\ UNCHANGED <<objects, signingKey, suiteVars, now, engrossVars, lBlobs, lBefore>>

\* Decruft: store.GC with the dumb collector, at any moment
Decruft ==
    /\ objects' = StoreGC(objects, links)
    /\ lastCall' = {"GC"}
    /\ cHandle' = NoHandle /\ aErr' = ""
    /\ UNCHANGED <<links, signingKey, suiteVars, now, engrossVars, linkVars>>

\* any step of Archive.Engross
Engross ==
    \/ EngrossBegin
    \/ \E name \in CompNames : EngrossComponent(name)
    \/ \E k \in WriterKeys, ok \in BOOLEAN : EngrossCommitWriter(k, ok)
    \/ \E archOrder \in Orders(eArches), ok \in BOOLEAN : EngrossSigned(archOrder, ok)
    \/ \E ok \in BOOLEAN : EngrossEncode(ok)
    \/ \E ok \in BOOLEAN : EngrossSign(ok)
    \/ \E ok \in BOOLEAN : EngrossClearsigned(ok)

PubNext ==
    \/ ArchiveSuite /\ UNCHANGED <<readVars, dlVars, foldVars, mapVars, poolVars>>
    \/ \E name \in CompNames : SuiteComponent(name) /\ UNCHANGED <<readVars, dlVars, foldVars, mapVars, poolVars>>
    \/ \E name \in CompNames, pkg \in Package, ok \in BOOLEAN :
          AddPackage(name, pkg, ok) /\ UNCHANGED <<readVars, dlVars, foldVars, mapVars, poolVars>>
    \/ Engross /\ UNCHANGED <<readVars, dlVars, foldVars, mapVars, poolVars>>
    \/ LinkBegin /\ UNCHANGED <<readVars, dlVars, foldVars, mapVars, poolVars>>
    \/ \E path \in Paths, outcome \in {"ok", "io", "missing"} :
          LinkStep(path, outcome) /\ UNCHANGED <<readVars, dlVars, foldVars, mapVars, poolVars>>
    \/ Decruft /\ UNCHANGED <<readVars, dlVars, foldVars, mapVars, poolVars>>

(***************************************************************************)
(* The verified reader: Archive.Suite, Suite.Packages, Suite.Sources.      *)
(***************************************************************************)
\* what an index file may hold: encoded paragraphs and text that is none
Garbage == <<"garbage">>
Tokens == {EncodeParagraph(pkg) : pkg \in Package} \cup {Garbage}
RECURSIVE SeqsUpTo(_, _)
SeqsUpTo(S, n) ==
    IF n = 0 THEN {<<>>}
    ELSE LET shorter == SeqsUpTo(S, n - 1)
         IN shorter \cup {Append(q, x) : q \in {t \in shorter : Len(t) = n - 1}, x \in S}
Contents == SeqsUpTo(Tokens, MaxIndexLen)

\* (mutant) the architecture's path element without its binary- prefix
PackagesFileBare(component, arch) == <<component, arch, "Packages">>

\* the index files of the suite, relative to dists/<suite>
PackagesFile(component, arch) == <<component, "binary-", arch, "Packages">>
SourcesFile(component) == <<component, "source", "Sources.gz">>
IndexFiles == {PackagesFile(c, a) : c \in CompNames, a \in Arches}
                  \cup {SourcesFile(c) : c \in CompNames}

\* the Release documents an InRelease may carry: the listed components and
\* architectures, and for each of the files one line under each of the
\* algorithms, all for the content declared
ReleaseDoc(comps, arches, algorithms, files, declared) ==
    LET lines(a) == IF a \in algorithms
                    THEN {FileHashFromHasher(f, a, declared) : f \in files}
                    ELSE {}
    IN [Suite |-> SuiteName, Date |-> 0, Components |-> comps,
        Architectures |-> arches, MD5Sum |-> lines("md5"), SHA1 |-> lines("sha1"),
        SHA256 |-> lines("sha256"), SHA512 |-> lines("sha512")]

ReleaseDocs ==
    {ReleaseDoc(comps, arches, algorithms, files, declared) :
        comps \in {<<>>, <<"main">>}, arches \in {<<>>, <<"amd64">>},
        algorithms \in SUBSET KnownAlgorithms,
        files \in SUBSET {PackagesFile("main", "amd64"), SourcesFile("main")},
        declared \in Contents}

\* the reader's errors
NoError == ""
FetchError == "fetch failed"
SignatureError == "signature check failed"
DecodeError == "decode failed"
NoSuchComponent == "No such component"
NoSuchArch == "No such arch"
Undeclared == "Undeclared file in InRelease"
HashMismatch == "Index hashes don't match!"

NoSuite == [present |-> FALSE, Release |-> NoRelease]
NoDoc == [fetchOk |-> FALSE, sigOk |-> FALSE, decodeOk |-> FALSE, release |-> NoRelease]
NoRes == [op |-> "none", file |-> <<>>, served |-> <<>>, opened |-> FALSE,
          streamed |-> FALSE, entries |-> <<>>, err |-> NoError]

\* the InRelease documents the archive may serve: fetching it, checking its
\* signature against the keyring and decoding it each work or fail
Docs == [fetchOk : BOOLEAN, sigOk : BOOLEAN, decodeOk : BOOLEAN, release : ReleaseDocs]

\* NewArchive(root, pathReader, keyring): nothing has been read yet
ReadInit ==
    /\ rDoc = NoDoc
    /\ rSuite = NoSuite
    /\ rSuiteErr = NoError
    /\ rRes = NoRes

\* LoadInRelease(in, keyring): control.NewDecoder checks the clearsigned
\* document against the keyring and fails when that fails; Decode's error is
\* returned together with the Release decoded so far
LoadInRelease(doc) ==
    IF ~doc.sigOk THEN [release |-> NoRelease, isNil |-> TRUE, err |-> SignatureError]
    ELSE IF ~doc.decodeOk THEN [release |-> doc.release, isNil |-> FALSE, err |-> DecodeError]
    ELSE [release |-> doc.release, isNil |-> FALSE, err |-> NoError]

\* (mutant) Suite(name) uses the Release LoadInRelease hands back whenever it
\* is not nil, without looking at the error
ReaderSuiteUnchecked(doc) ==
    /\ rDoc = doc
    /\ UNCHANGED rDoc
    /\ IF ~doc.fetchOk
       THEN rSuite' = NoSuite /\ rSuiteErr' = FetchError
       ELSE LET loaded == LoadInRelease(doc) IN
            IF loaded.isNil
            THEN rSuite' = NoSuite /\ rSuiteErr' = loaded.err
            ELSE /\ rSuite' = [present |-> TRUE, Release |-> loaded.release]
                 /\ rSuiteErr' = NoError
    /\ rRes' = NoRes

\* Archive.Suite(name) of the reader, for the InRelease document doc
ReaderSuite(doc) ==
    /\ rDoc = doc
    /\ UNCHANGED rDoc
    /\ IF ~doc.fetchOk
       THEN rSuite' = NoSuite /\ rSuiteErr' = FetchError
       ELSE LET loaded == LoadInRelease(doc) IN
            IF loaded.err # NoError
            THEN rSuite' = NoSuite /\ rSuiteErr' = loaded.err
            ELSE /\ rSuite' = [present |-> TRUE, Release |-> loaded.release]
                 /\ rSuiteErr' = NoError
    /\ rRes' = NoRes

\* Suite.HasComponent, Suite.HasArch
HasComponent(r, component) == \E i \in DOMAIN r.Components : r.Components[i] = component
HasArch(r, arch) == \E i \in DOMAIN r.Architectures : r.Architectures[i] = arch

\* s.Release.Indices()[suitePath]: empty for a file Indices does not key
IndexHashes(r, file) == IF file \in DOMAIN Indices(r) THEN Indices(r)[file] ELSE {}

\* validators.Validate() once the verifier has been fed the bytes: every
\* declared hash agrees with them in digest and in size
Validate(hashes, bytes) ==
    \A h \in hashes : h.Digest = Digest(h.Algorithm, bytes) /\ h.Size = Len(bytes)

\* the paragraphs decoded until Next returns io.EOF, or the error it returns
DecodeParagraph(token) ==
    [Package |-> token[2], Version |-> token[4], Architecture |-> token[6]]
DecodeAll(bytes) ==
    IF \E i \in DOMAIN bytes : bytes[i] = Garbage
    THEN [entries |-> <<>>, err |-> DecodeError]
    ELSE [entries |-> [i \in DOMAIN bytes |-> DecodeParagraph(bytes[i])], err |-> NoError]

\* the call's result: what it returned, and what it did to get there
Result(op, file, served, opened, streamed, entries, err) ==
    [op |-> op, file |-> file, served |-> served, opened |-> opened,
     streamed |-> streamed, entries |-> entries, err |-> err]

\* Suite.getHashedFileReader(suitePath): the declared hashes are looked up
\* first, and the file is opened (through a tee into the validators) only
\* when there are some
GetHashedFileReader(r, file, openOk) ==
    LET hashes == IndexHashes(r, file)
    IN IF hashes = {}
       THEN [err |-> Undeclared, opened |-> FALSE, validators |-> {}]
       ELSE IF ~openOk
            THEN [err |-> FetchError, opened |-> TRUE, validators |-> {}]
            ELSE [err |-> NoError, opened |-> TRUE, validators |-> hashes]

\* (mutant) the entries are returned without the trailing Validate
PackagesUnvalidated(r, component, arch, openOk, served) ==
    LET file == PackagesFile(component, arch)
        hashed == GetHashedFileReader(r, file, openOk)
        decoded == DecodeAll(served)
    IN IF ~HasComponent(r, component)
       THEN Result("Packages", file, served, FALSE, FALSE, <<>>, NoSuchComponent)
       ELSE IF ~HasArch(r, arch)
       THEN Result("Packages", file, served, FALSE, FALSE, <<>>, NoSuchArch)
       ELSE IF hashed.err # NoError
       THEN Result("Packages", file, served, hashed.opened, FALSE, <<>>, hashed.err)
       ELSE IF decoded.err # NoError
       THEN Result("Packages", file, served, TRUE, TRUE, <<>>, decoded.err)
       ELSE Result("Packages", file, served, TRUE, TRUE, decoded.entries, NoError)

\* Suite.Packages(component, arch) when the file, once opened, yields served
Packages(r, component, arch, openOk, served) ==
    LET file == PackagesFile(component, arch)
        hashed == GetHashedFileReader(r, file, openOk)
        decoded == DecodeAll(served)
    IN IF ~HasComponent(r, component)
       THEN Result("Packages", file, served, FALSE, FALSE, <<>>, NoSuchComponent)
       ELSE IF ~HasArch(r, arch)
       THEN Result("Packages", file, served, FALSE, FALSE, <<>>, NoSuchArch)
       ELSE IF hashed.err # NoError
       THEN Result("Packages", file, served, hashed.opened, FALSE, <<>>, hashed.err)
       ELSE IF decoded.err # NoError
       THEN Result("Packages", file, served, TRUE, TRUE, <<>>, decoded.err)
       ELSE IF ~Validate(hashed.validators, served)
       THEN Result("Packages", file, served, TRUE, TRUE, <<>>, HashMismatch)
       ELSE Result("Packages", file, served, TRUE, TRUE, decoded.entries, NoError)

\* Suite.Sources(component) when the file, once opened, yields served
Sources(r, component, openOk, served) ==
    LET file == SourcesFile(component)
        hashed == GetHashedFileReader(r, file, openOk)
        decoded == DecodeAll(served)
    IN IF ~HasComponent(r, component)
       THEN Result("Sources", file, served, FALSE, FALSE, <<>>, NoSuchComponent)
       ELSE IF hashed.err # NoError
       THEN Result("Sources", file, served, hashed.opened, FALSE, <<>>, hashed.err)
       ELSE IF decoded.err # NoError
       THEN Result("Sources", file, served, TRUE, TRUE, <<>>, decoded.err)
       ELSE IF ~Validate(hashed.validators, served)
       THEN Result("Sources", file, served, TRUE, TRUE, <<>>, HashMismatch)
       ELSE Result("Sources", file, served, TRUE, TRUE, decoded.entries, NoError)

\* a call of Packages on the Suite that Suite(name) returned
ReaderPackages(component, arch, openOk, served) ==
    /\ rSuite.present
    /\ rRes' = Packages(rSuite.Release, component, arch, openOk, served)
    /\ UNCHANGED <<rDoc, rSuite, rSuiteErr>>

\* a call of Sources on the Suite that Suite(name) returned
ReaderSources(component, openOk, served) ==
    /\ rSuite.present
    /\ rRes' = Sources(rSuite.Release, component, openOk, served)
    /\ UNCHANGED <<rDoc, rSuite, rSuiteErr>>

ReadNext ==
    \/ ReaderSuite(rDoc) /\ UNCHANGED <<pubVars, dlVars, foldVars, mapVars, poolVars>>
    \/ \E component \in CompNames, arch \in Arches, openOk \in BOOLEAN,
          served \in Contents :
          ReaderPackages(component, arch, openOk, served) /\ UNCHANGED <<pubVars, dlVars, foldVars, mapVars, poolVars>>
    \/ \E component \in CompNames, openOk \in BOOLEAN, served \in Contents :
          ReaderSources(component, openOk, served) /\ UNCHANGED <<pubVars, dlVars, foldVars, mapVars, poolVars>>

(***************************************************************************)
(* The Downloader: pool, open, tempFileWithFilename, TempFile, Release,    *)
(* ReleaseDownloader.TempFile and CachedRelease.                           *)
(***************************************************************************)
Procs == 1..MaxProcs

\* the Downloader's exported fields, as the caller may have set them;
\* LocalMirror is TRUE for a non-empty path
Configs == [Parallel : 0..MaxParallel, MaxTransientRetries : 0..MaxRetries,
            LocalMirror : BOOLEAN]
\* var DefaultDownloader
DefaultDownloader == [Parallel |-> 10, MaxTransientRetries |-> 3, LocalMirror |-> FALSE]

\* suite names: strings.HasSuffix(suite, "stable") holds for the second
DlSuites == {"sid", "stable"}
HasSuffixStable(suite) == suite = "stable"

\* the bytes a FileHash was computed over, and what upstream may serve
DeclaredBytes == <<"a">>
ServedBytes == {<<"a">>, <<"b">>}

\* the index files a caller asks for (fh.Filename), path elements in order
DlFilenames == {<<"main", "binary-amd64", "Packages.gz">>, <<"main", "source", "Sources">>}
FileHashes == {FileHashFromHasher(f, "sha256", DeclaredBytes) : f \in DlFilenames}
NoFileHash == FileHashFromHasher(<<>>, "", <<>>)

\* filepath.Ext of a path: the suffix of its last element from the last dot
Ext(path) ==
    IF path # <<>> /\ path[Len(path)] = "Packages.gz" THEN ".gz" ELSE ""

\* "dists/" + suite + "/" + name
DistsPath(suite, name) == <<"dists", suite>> \o name

\* fh.ByHashPath(fn): by-hash/<algorithm>/<digest> in the directory of fn
ByHashPath(fh, fn) == SubSeq(fn, 1, Len(fn) - 1) \o <<"by-hash", fh.Algorithm, fh.Digest>>

\* the writer fh.Verifier() returns, and the noopVerifier of Release
FhVerifier(fh) == [kind |-> "fh", fh |-> fh]
NoopVerifier == [kind |-> "noop", fh |-> NoFileHash]
\* verifier.Close() returns nil after bytes were written to it
VerifierAccepts(verifier, bytes) ==
    \/ verifier.kind = "noop"
    \/ /\ Digest(verifier.fh.Algorithm, bytes) = verifier.fh.Digest
       /\ Len(bytes) = verifier.fh.Size

\* the errors of the Downloader
TransientError == "transient"
StatusError == "unexpected HTTP status code"
FileError == "local mirror file error"
LastModifiedError == "unparsable Last-Modified"
TempFileError == "ioutil.TempFile failed"
StreamError == "stream failed"
VerifyError == "verification failed"
KeyringError == "keyring not loaded"
VerifierError == "no verifier for the hash"
LoadError == "LoadInRelease failed"

\* what one open attempt may come to: errors of g.open by mirror kind
OpenOutcomes(local) ==
    IF local THEN {"ok", FileError}
    ELSE {"ok", TransientError, StatusError, LastModifiedError}
IsTransient(err) == err = TransientError

\* the Release a release document decodes to
DlRelease(suite, byHash) ==
    [Suite |-> suite, Date |-> 0, Components |-> <<>>, Architectures |-> <<>>,
     MD5Sum |-> {}, SHA1 |-> {}, SHA256 |-> {}, SHA512 |-> {},
     AcquireByHash |-> byHash]
\* the release documents upstream may serve at a path: signed is TRUE for a
\* clearsigned InRelease and FALSE for a Release, which carries no signature;
\* sigOk is whether control.NewDecoder accepts it with the keyring
DlDocs(suite, signed) ==
    [fetchOk : {TRUE}, signed : {signed}, sigOk : BOOLEAN, decodeOk : BOOLEAN,
     release : {DlRelease(suite, b) : b \in BOOLEAN}]
NoDlDoc == [fetchOk |-> FALSE, signed |-> FALSE, sigOk |-> FALSE, decodeOk |-> FALSE,
            release |-> NoRelease]

NoFile == [exists |-> FALSE, bytes |-> <<>>]
NoRD == [present |-> FALSE, suite |-> "", acquireByHash |-> FALSE]
NoCached == [present |-> FALSE, r |-> NoRelease, rd |-> NoRD, err |-> ""]

\* a goroutine that has made no call yet
IdleProc ==
    [pc |-> "idle", op |-> "none", suite |-> "", fh |-> NoFileHash, fn |-> <<>>,
     verifier |-> NoopVerifier, decomp |-> "", rd |-> NoRD, retry |-> 0,
     attempts |-> 0, served |-> <<>>,
     doc |-> NoDlDoc, file |-> NoFile, r |-> NoRelease, rrd |-> NoRD, err |-> ""]

\* a Downloader with the fields cfg, before any call: once not run, no pool
DlStart(cfg) ==
    /\ dCfg = cfg
    /\ dOnce = FALSE
    /\ dKeyring = FALSE
    /\ dPool = 0
    /\ dProc = [p \in Procs |-> IdleProc]
    /\ dTemp = {}
    /\ dCache = [s \in DlSuites |-> NoCached]
    /\ dFetches = [s \in DlSuites |-> 0]
    /\ dRDs = {}

DlInit == \E cfg \in Configs : DlStart(cfg)

\* DefaultDownloader left alone
DlUnused == DlStart(DefaultDownloader)

\* where a goroutine goes when tempFileWithFilename has returned err to op
AfterTempFile(op, err) ==
    IF op \in {"TempFile", "RDTempFile"} THEN "done"
    ELSE IF err = "" THEN "load"
    ELSE IF op = "CachedRelease" THEN "store" ELSE "done"
\* where a goroutine goes when Downloader.Release has returned to op
AfterRelease(op) == IF op = "CachedRelease" THEN "store" ELSE "done"

\* Downloader.TempFile(fh) is called
CallTempFile(p, fh) ==
    /\ dProc[p].pc = "idle"
    /\ dProc' = [dProc EXCEPT ![p] = [@ EXCEPT !.pc = "init", !.op = "TempFile", !.fh = fh]]
    /\ UNCHANGED <<dCfg, dOnce, dKeyring, dPool, dTemp, dCache, dFetches, dRDs>>

\* Downloader.Release(suite) is called
CallRelease(p, suite) ==
    /\ dProc[p].pc = "idle"
    /\ dProc' = [dProc EXCEPT ![p] = [@ EXCEPT !.pc = "init", !.op = "Release",
                                                !.suite = suite]]
    /\ UNCHANGED <<dCfg, dOnce, dKeyring, dPool, dTemp, dCache, dFetches, dRDs>>

\* (mutant) a cached error does not count as a hit
CachedReleaseLookupRetrying(p, suite) ==
    /\ dProc[p].pc = "idle"
    /\ IF dCache[suite].present /\ dCache[suite].err = ""
       THEN /\ dProc' = [dProc EXCEPT ![p] = [@ EXCEPT !.pc = "done",
                             !.op = "CachedRelease", !.suite = suite,
                             !.r = dCache[suite].r, !.rrd = dCache[suite].rd,
                             !.err = dCache[suite].err]]
            /\ UNCHANGED dFetches
       ELSE /\ dProc' = [dProc EXCEPT ![p] = [@ EXCEPT !.pc = "init",
                             !.op = "CachedRelease", !.suite = suite]]
            /\ dFetches' = [dFetches EXCEPT ![suite] = @ + 1]
    /\ UNCHANGED <<dCfg, dOnce, dKeyring, dPool, dTemp, dCache, dRDs>>

\* CachedRelease(suite) up to its call of DefaultDownloader.Release: the
\* cache is looked up under releaseCacheMu, a hit returns the cached values
CachedReleaseLookup(p, suite) ==
    /\ dProc[p].pc = "idle"
    /\ IF dCache[suite].present
       THEN /\ dProc' = [dProc EXCEPT ![p] = [@ EXCEPT !.pc = "done",
                             !.op = "CachedRelease", !.suite = suite,
                             !.r = dCache[suite].r, !.rrd = dCache[suite].rd,
                             !.err = dCache[suite].err]]
            /\ UNCHANGED dFetches
       ELSE /\ dProc' = [dProc EXCEPT ![p] = [@ EXCEPT !.pc = "init",
                             !.op = "CachedRelease", !.suite = suite]]
            /\ dFetches' = [dFetches EXCEPT ![suite] = @ + 1]
    /\ UNCHANGED <<dCfg, dOnce, dKeyring, dPool, dTemp, dCache, dRDs>>

\* (mutant) the canonical path whatever acquireByHash is
RDFilenamePlain(rd, fh) == DistsPath(rd.suite, fh.Filename)

\* the path ReleaseDownloader.TempFile fetches: dists/<suite>/<fh.Filename>,
\* or its by-hash path when r.acquireByHash
RDFilename(rd, fh) ==
    LET fn == DistsPath(rd.suite, fh.Filename)
    IN IF rd.acquireByHash THEN ByHashPath(fh, fn) ELSE fn

\* ReleaseDownloader.TempFile(fh) up to tempFileWithFilename, on a
\* ReleaseDownloader that Release returned
ReleaseDownloaderTempFile(p, rd, fh, verifierOk) ==
    /\ dProc[p].pc = "idle"
    /\ rd \in dRDs
    /\ dProc' = [dProc EXCEPT ![p] =
          IF verifierOk
          THEN [@ EXCEPT !.pc = "lock", !.op = "RDTempFile", !.fh = fh, !.rd = rd,
                         !.suite = rd.suite,
                         !.fn = RDFilename(rd, fh),
                         !.verifier = FhVerifier(fh),
                         !.decomp = Ext(fh.Filename)]
          ELSE [@ EXCEPT !.pc = "done", !.op = "RDTempFile", !.fh = fh, !.rd = rd,
                         !.suite = rd.suite, !.err = VerifierError]]
    /\ UNCHANGED <<dCfg, dOnce, dKeyring, dPool, dTemp, dCache, dFetches, dRDs>>

\* g.init() and what TempFile and Release do between it and
\* tempFileWithFilename: once.Do makes the pool and loads the keyring, and
\* only the call that ran it sees its error
DownloaderInit(p, keyringOk, verifierOk) ==
    LET me == dProc[p]
        initErr == IF ~dOnce /\ ~keyringOk THEN KeyringError ELSE ""
        u == IF HasSuffixStable(me.suite) THEN DistsPath(me.suite, <<"Release">>)
             ELSE DistsPath(me.suite, <<"InRelease">>)
    IN
    /\ me.pc = "init"
    /\ dOnce' = TRUE
    /\ dPool' = IF dOnce THEN dPool ELSE 0
    /\ dKeyring' = IF dOnce THEN dKeyring ELSE keyringOk
    /\ dProc' = [dProc EXCEPT ![p] =
          IF initErr # ""
          THEN [@ EXCEPT !.pc = AfterRelease(me.op), !.err = initErr]
          ELSE IF me.op = "TempFile"
          THEN IF verifierOk
               THEN [@ EXCEPT !.pc = "lock", !.fn = me.fh.Filename,
                              !.verifier = FhVerifier(me.fh),
                              !.decomp = Ext(me.fh.Filename)]
               ELSE [@ EXCEPT !.pc = "done", !.err = VerifierError]
          ELSE [@ EXCEPT !.pc = "lock", !.fn = u, !.verifier = NoopVerifier,
                         !.decomp = ""]]
    /\ UNCHANGED <<dCfg, dTemp, dCache, dFetches, dRDs>>

\* (mutant) pool.lock that never blocks
PoolLockUngated(p) ==
    /\ dProc[p].pc = "lock"
    /\ dPool' = dPool + 1
    /\ dProc' = [dProc EXCEPT ![p] = [@ EXCEPT !.pc = "tempfile"]]
    /\ UNCHANGED <<dCfg, dOnce, dKeyring, dTemp, dCache, dFetches, dRDs>>

\* g.pool.lock(): the send blocks while the channel holds Parallel values
PoolLock(p) ==
    /\ dProc[p].pc = "lock"
    /\ dPool < dCfg.Parallel
    /\ dPool' = dPool + 1
    /\ dProc' = [dProc EXCEPT ![p] = [@ EXCEPT !.pc = "tempfile"]]
    /\ UNCHANGED <<dCfg, dOnce, dKeyring, dTemp, dCache, dFetches, dRDs>>

\* (mutant) the slot is not given back when ioutil.TempFile fails
CreateTempKeepingSlot(p, ok) ==
    LET me == dProc[p] IN
    /\ me.pc = "tempfile"
    /\ IF ok
       THEN /\ dTemp' = dTemp \cup {p}
            /\ dProc' = [dProc EXCEPT ![p] = [@ EXCEPT !.pc = "open", !.retry = 0]]
       ELSE /\ dProc' = [dProc EXCEPT ![p] =
                            [@ EXCEPT !.pc = AfterTempFile(me.op, TempFileError),
                                      !.err = TempFileError]]
            /\ UNCHANGED dTemp
    /\ UNCHANGED <<dCfg, dOnce, dKeyring, dPool, dCache, dFetches, dRDs>>

\* ioutil.TempFile(g.TempDir, "archive-"); on its error the deferred
\* g.pool.unlock() runs and the error is returned
CreateTemp(p, ok) ==
    LET me == dProc[p] IN
    /\ me.pc = "tempfile"
    /\ IF ok
       THEN /\ dTemp' = dTemp \cup {p}
            /\ dProc' = [dProc EXCEPT ![p] = [@ EXCEPT !.pc = "open", !.retry = 0]]
            /\ UNCHANGED dPool
       ELSE /\ dProc' = [dProc EXCEPT ![p] =
                            [@ EXCEPT !.pc = AfterTempFile(me.op, TempFileError),
                                      !.err = TempFileError]]
            /\ dPool' = dPool - 1
            /\ UNCHANGED dTemp
    /\ UNCHANGED <<dCfg, dOnce, dKeyring, dCache, dFetches, dRDs>>

\* (mutant) the retry test with <= in place of <
RetryInclusive(err, retry, max) == IsTransient(err) /\ retry <= max

\* (mutant) every error is retried while the counter allows it
RetryAnyError(err, retry, max) == retry < max

\* the test of the retry loop: err is a transientError and retry is below
\* g.MaxTransientRetries
Retry(err, retry, max) == IsTransient(err) /\ retry < max

\* one turn of the retry loop: g.open(fn), then break, continue, or remove
\* the temporary file and return the error
OpenAttempt(p, outcome) ==
    LET me == dProc[p]
        opened == [me EXCEPT !.attempts = @ + 1]
    IN
    /\ me.pc = "open"
    /\ outcome \in OpenOutcomes(dCfg.LocalMirror)
    /\ IF outcome = "ok"
       THEN /\ dProc' = [dProc EXCEPT ![p] = [opened EXCEPT !.pc = "stream"]]
            /\ UNCHANGED <<dPool, dTemp>>
       ELSE IF Retry(outcome, me.retry, dCfg.MaxTransientRetries)
       THEN /\ dProc' = [dProc EXCEPT ![p] = [opened EXCEPT !.retry = @ + 1]]
            /\ UNCHANGED <<dPool, dTemp>>
       ELSE /\ dProc' = [dProc EXCEPT ![p] =
                            [opened EXCEPT !.pc = AfterTempFile(me.op, outcome),
                                           !.err = outcome]]
            /\ dTemp' = dTemp \ {p}
            /\ dPool' = dPool - 1
    /\ UNCHANGED <<dCfg, dOnce, dKeyring, dCache, dFetches, dRDs>>

\* (mutant) the file is returned whatever verifier.Close() says
StreamUnverified(p, served, ioOk) ==
    LET me == dProc[p]
        streamed == [me EXCEPT !.served = served]
        err == IF ~ioOk THEN StreamError ELSE ""
    IN
    /\ me.pc = "stream"
    /\ dProc' = [dProc EXCEPT ![p] =
          IF err # ""
          THEN [streamed EXCEPT !.pc = AfterTempFile(me.op, err), !.err = err]
          ELSE [streamed EXCEPT !.pc = AfterTempFile(me.op, ""),
                                !.file = [exists |-> TRUE, bytes |-> served]]]
    /\ dPool' = dPool - 1
    /\ UNCHANGED <<dCfg, dOnce, dKeyring, dTemp, dCache, dFetches, dRDs>>

\* the rest of tempFileWithFilename: the opened stream is read through the
\* verifier and the decompressor into the temporary file, verifier.Close()
\* gives its verdict, the file is flushed, rewound and given its time; every
\* error returns nil and leaves the temporary file as it is
Stream(p, served, ioOk) ==
    LET me == dProc[p]
        streamed == [me EXCEPT !.served = served]
        err == IF ~ioOk THEN StreamError
               ELSE IF ~VerifierAccepts(me.verifier, served) THEN VerifyError
               ELSE ""
    IN
    /\ me.pc = "stream"
    /\ dProc' = [dProc EXCEPT ![p] =
          IF err # ""
          THEN [streamed EXCEPT !.pc = AfterTempFile(me.op, err), !.err = err]
          ELSE [streamed EXCEPT !.pc = AfterTempFile(me.op, ""),
                                !.file = [exists |-> TRUE, bytes |-> served]]]
    /\ dPool' = dPool - 1
    /\ UNCHANGED <<dCfg, dOnce, dKeyring, dTemp, dCache, dFetches, dRDs>>

\* the rest of Downloader.Release: LoadInRelease on the fetched file with
\* the keyring, f.Stat, and the deferred Close and Remove of the file
LoadRelease(p, doc, statOk) ==
    LET me == dProc[p]
        loaded == LoadInRelease([doc EXCEPT !.sigOk = @ /\ (dKeyring \/ ~doc.signed)])
        err == IF loaded.err # NoError THEN LoadError
               ELSE IF ~statOk THEN FileError ELSE ""
        rd == [present |-> TRUE, suite |-> me.suite,
               acquireByHash |-> loaded.release.AcquireByHash]
    IN
    /\ me.pc = "load"
    /\ doc \in DlDocs(me.suite, ~HasSuffixStable(me.suite))
    /\ dTemp' = dTemp \ {p}
    /\ IF err # ""
       THEN /\ dProc' = [dProc EXCEPT ![p] =
                            [@ EXCEPT !.pc = AfterRelease(me.op), !.doc = doc,
                                      !.file = NoFile, !.err = err]]
            /\ UNCHANGED dRDs
       ELSE /\ dProc' = [dProc EXCEPT ![p] =
                            [@ EXCEPT !.pc = AfterRelease(me.op), !.doc = doc,
                                      !.file = NoFile, !.r = loaded.release,
                                      !.rrd = rd]]
            /\ dRDs' = dRDs \cup {rd}
    /\ UNCHANGED <<dCfg, dOnce, dKeyring, dPool, dCache, dFetches>>

\* (mutant) the last goroutine to finish overwrites the entry
CachedReleaseStoreOverwriting(p) ==
    LET me == dProc[p] IN
    /\ me.pc = "store"
    /\ dProc' = [dProc EXCEPT ![p] = [@ EXCEPT !.pc = "done"]]
    /\ dCache' = [dCache EXCEPT ![me.suite] =
                    [present |-> TRUE, r |-> me.r, rd |-> me.rrd, err |-> me.err]]
    /\ UNCHANGED <<dCfg, dOnce, dKeyring, dPool, dTemp, dFetches, dRDs>>

\* (mutant) a goroutine that was raced keeps the entry but returns what its
\* own Release call returned
CachedReleaseStoreOwnResult(p) ==
    LET me == dProc[p]
        cached == dCache[me.suite]
    IN
    /\ me.pc = "store"
    /\ dProc' = [dProc EXCEPT ![p] = [@ EXCEPT !.pc = "done"]]
    /\ IF cached.present
       THEN UNCHANGED dCache
       ELSE dCache' = [dCache EXCEPT ![me.suite] =
                         [present |-> TRUE, r |-> me.r, rd |-> me.rrd,
                          err |-> me.err]]
    /\ UNCHANGED <<dCfg, dOnce, dKeyring, dPool, dTemp, dFetches, dRDs>>

\* the end of CachedRelease: under releaseCacheMu, return what another
\* goroutine cached meanwhile, or cache and return what Release returned
CachedReleaseStore(p) ==
    LET me == dProc[p]
        cached == dCache[me.suite]
    IN
    /\ me.pc = "store"
    /\ IF cached.present
       THEN /\ dProc' = [dProc EXCEPT ![p] =
                            [@ EXCEPT !.pc = "done", !.r = cached.r,
                                      !.rrd = cached.rd, !.err = cached.err]]
            /\ UNCHANGED dCache
       ELSE /\ dProc' = [dProc EXCEPT ![p] = [@ EXCEPT !.pc = "done"]]
            /\ dCache' = [dCache EXCEPT ![me.suite] =
                            [present |-> TRUE, r |-> me.r, rd |-> me.rrd,
                             err |-> me.err]]
    /\ UNCHANGED <<dCfg, dOnce, dKeyring, dPool, dTemp, dFetches, dRDs>>

DlNext ==
    \/ \E p \in Procs, fh \in FileHashes :
          CallTempFile(p, fh) /\ UNCHANGED <<pubVars, readVars, foldVars, mapVars, poolVars>>
    \/ \E p \in Procs, suite \in DlSuites :
          CallRelease(p, suite) /\ UNCHANGED <<pubVars, readVars, foldVars, mapVars, poolVars>>
    \/ \E p \in Procs, suite \in DlSuites :
          CachedReleaseLookup(p, suite) /\ UNCHANGED <<pubVars, readVars, foldVars, mapVars, poolVars>>
    \/ \E p \in Procs, rd \in dRDs, fh \in FileHashes, verifierOk \in BOOLEAN :
          ReleaseDownloaderTempFile(p, rd, fh, verifierOk)
              /\ UNCHANGED <<pubVars, readVars, foldVars, mapVars, poolVars>>
    \/ \E p \in Procs, keyringOk \in BOOLEAN, verifierOk \in BOOLEAN :
          DownloaderInit(p, keyringOk, verifierOk) /\ UNCHANGED <<pubVars, readVars, foldVars, mapVars, poolVars>>
    \/ \E p \in Procs : PoolLock(p) /\ UNCHANGED <<pubVars, readVars, foldVars, mapVars, poolVars>>
    \/ \E p \in Procs, ok \in BOOLEAN :
          CreateTemp(p, ok) /\ UNCHANGED <<pubVars, readVars, foldVars, mapVars, poolVars>>
    \/ \E p \in Procs, outcome \in OpenOutcomes(dCfg.LocalMirror) :
          OpenAttempt(p, outcome) /\ UNCHANGED <<pubVars, readVars, foldVars, mapVars, poolVars>>
    \/ \E p \in Procs, served \in ServedBytes, ioOk \in BOOLEAN :
          Stream(p, served, ioOk) /\ UNCHANGED <<pubVars, readVars, foldVars, mapVars, poolVars>>
    \/ \E p \in Procs, sigOk \in BOOLEAN, decodeOk \in BOOLEAN, byHash \in BOOLEAN,
          statOk \in BOOLEAN :
          LoadRelease(p, [fetchOk |-> TRUE,
                          signed |-> ~HasSuffixStable(dProc[p].suite),
                          sigOk |-> sigOk, decodeOk |-> decodeOk,
                          release |-> DlRelease(dProc[p].suite, byHash)], statOk)
              /\ UNCHANGED <<pubVars, readVars, foldVars, mapVars, poolVars>>
    \/ \E p \in Procs : CachedReleaseStore(p) /\ UNCHANGED <<pubVars, readVars, foldVars, mapVars, poolVars>>

(***************************************************************************)
(* The hasher loop of Engross, over any list of hashers.                   *)
(***************************************************************************)
\* the algorithms a writer's hashers may be of: the four Release.AddHash
\* knows and one it does not
HasherAlgorithms == KnownAlgorithms \cup {"sha384"}

\* a writer with the hashers of the algorithms algos, before the loop
FoldStart(algos) ==
    /\ fHashers = algos
    /\ fFolded = <<>>
    /\ fRelease = NewRelease(0)
    /\ fRet = ""

FoldInit == \E algos \in SeqsUpTo(HasherAlgorithms, MaxHashers) : FoldStart(algos)
FoldUnused == FoldStart(<<>>)

\* one pass of the loop over writer.hashers: the FileHash of the hasher is
\* handed to release.AddHash, whose result is not looked at
EngrossHasher ==
    /\ fRet = ""
    /\ fHashers # <<>>
    /\ LET h == FileHashFromHasher(SuitePath("main", "amd64"), Head(fHashers), OldIndex)
           res == AddHash(fRelease, h)
       IN /\ fRelease' = res.release
          /\ fFolded' = Append(fFolded, [hash |-> h, ok |-> res.ok])
    /\ fHashers' = Tail(fHashers)
    /\ UNCHANGED fRet

\* past the loop: files[filePath] = *obj, and Engross goes on
EngrossHashersDone ==
    /\ fRet = ""
    /\ fHashers = <<>>
    /\ fRet' = "files"
    /\ UNCHANGED <<fHashers, fFolded, fRelease>>

FoldNext ==
    \/ EngrossHasher /\ UNCHANGED <<pubVars, readVars, dlVars, mapVars, poolVars>>
    \/ EngrossHashersDone /\ UNCHANGED <<pubVars, readVars, dlVars, mapVars, poolVars>>

(***************************************************************************)
(* PackageMap and SourceMap: the loaders and SourceMap.Matches.            *)
(***************************************************************************)
\* the entries an index may hold; the fields other than the name and the
\* version are stood for by Architecture
MapNames == {"A", "B"}
MapEntries == [Package : MapNames, Version : MapVersions, Architecture : Arches]

\* version.Compare, over versions that are numbers
Compare(a, b) == IF a > b THEN 1 ELSE IF a < b THEN 0 - 1 ELSE 0

\* (mutant) the less function compares the other way round
SortPackagesAscending(packages) ==
    {q \in {[i \in DOMAIN packages |-> packages[f[i]]] :
                f \in Permutations(DOMAIN packages)} :
        \A i, j \in DOMAIN q :
            i < j => ~(Compare(q[j].Version, q[i].Version) < 0)}

\* SortPackages: sort.Slice with less(i, j) = Compare(v[i], v[j]) > 0; the
\* sort is not stable, so every ordering of the slice in which no later entry
\* is less than an earlier one is a possible result
SortPackages(packages) ==
    {q \in {[i \in DOMAIN packages |-> packages[f[i]]] :
                f \in Permutations(DOMAIN packages)} :
        \A i, j \in DOMAIN q :
            i < j => ~(Compare(q[j].Version, q[i].Version) > 0)}

\* SortSources: the same over []Source
SortSources(sources) ==
    {q \in {[i \in DOMAIN sources |-> sources[f[i]]] :
                f \in Permutations(DOMAIN sources)} :
        \A i, j \in DOMAIN q :
            i < j => ~(Compare(q[j].Version, q[i].Version) > 0)}

\* m[name] of a Go map: the zero value, a nil slice, for a missing key
MapGet(m, name) == IF name \in DOMAIN m THEN m[name] ELSE <<>>

EOF == "EOF"
NilMap == [nil |-> TRUE, entries |-> <<>>]

\* (mutant) an error from Next returns the map built so far with the error
LoadReturnPartial(ret, err) ==
    [map |-> [nil |-> FALSE, entries |-> ret], err |-> IF err = EOF THEN "" ELSE err]

\* how the loaders leave their loop: io.EOF breaks and &ret, nil is returned;
\* any other error returns nil, err
LoadReturn(ret, err) ==
    IF err = EOF
    THEN [map |-> [nil |-> FALSE, entries |-> ret], err |-> ""]
    ELSE [map |-> NilMap, err |-> err]

\* a loader called with an iterator that returns entries and then end
MapStart(kind, entries, end) ==
    /\ mKind = kind
    /\ mIn = entries
    /\ mPos = 0
    /\ mEnd = end
    /\ mRet = <<>>
    /\ mPc = "loading"
    /\ mOut = NilMap
    /\ mErr = ""
    /\ mMatch = <<>>

MapInit ==
    \E kind \in {"PackageMap", "SourceMap"}, entries \in SeqsUpTo(MapEntries, MaxEntries),
       end \in {EOF, DecodeError} :
        MapStart(kind, entries, end)
MapUnused == MapStart("PackageMap", <<>>, EOF)

\* LoadPackageMap, one pass of its loop per step
LoadPackageMap ==
    /\ mPc = "loading" /\ mKind = "PackageMap"
    /\ IF mPos < Len(mIn)
       THEN LET binary == mIn[mPos + 1] IN
            /\ \E sorted \in SortPackages(Append(MapGet(mRet, binary.Package), binary)) :
                  mRet' = [n \in DOMAIN mRet \cup {binary.Package} |->
                              IF n = binary.Package THEN sorted ELSE mRet[n]]
            /\ mPos' = mPos + 1
            /\ UNCHANGED <<mPc, mOut, mErr>>
       ELSE /\ mPc' = "returned"
            /\ mOut' = LoadReturn(mRet, mEnd).map
            /\ mErr' = LoadReturn(mRet, mEnd).err
            /\ UNCHANGED <<mPos, mRet>>
    /\ UNCHANGED <<mKind, mIn, mEnd, mMatch>>

\* LoadSourceMap, one pass of its loop per step
LoadSourceMap ==
    /\ mPc = "loading" /\ mKind = "SourceMap"
    /\ IF mPos < Len(mIn)
       THEN LET source == mIn[mPos + 1] IN
            /\ \E sorted \in SortSources(Append(MapGet(mRet, source.Package), source)) :
                  mRet' = [n \in DOMAIN mRet \cup {source.Package} |->
                              IF n = source.Package THEN sorted ELSE mRet[n]]
            /\ mPos' = mPos + 1
            /\ UNCHANGED <<mPc, mOut, mErr>>
       ELSE /\ mPc' = "returned"
            /\ mOut' = LoadReturn(mRet, mEnd).map
            /\ mErr' = LoadReturn(mRet, mEnd).err
            /\ UNCHANGED <<mPos, mRet>>
    /\ UNCHANGED <<mKind, mIn, mEnd, mMatch>>

\* dependency.VersionRelation.SatisfiedBy, Debian's five relations
SatisfiedBy(relation, v) ==
    LET q == Compare(v, relation.Number) IN
    CASE relation.Operator = ">=" -> q >= 0
      [] relation.Operator = "<=" -> q <= 0
      [] relation.Operator = ">>" -> q > 0
      [] relation.Operator = "<<" -> q < 0
      [] relation.Operator = "=" -> q = 0
      [] OTHER -> FALSE

\* the possibilities Matches is asked about: a source name (one of them in
\* no index), an architecture qualifier or none, and a version relation
NoArch == "nil"
Possibilities ==
    [Name : MapNames \cup {"C"}, Arch : {NoArch, "amd64"},
     Version : [Operator : {">=", "<=", ">>", "<<", "="}, Number : MapVersions]]

\* (mutant) the last candidate that satisfies the relation
MatchesLast(s, possi) ==
    LET candidates == MapGet(s, possi.Name)
        last[i \in 0..Len(candidates)] ==
            IF i = 0 THEN 0 - 1
            ELSE IF SatisfiedBy(possi.Version, candidates[i].Version) THEN i - 1
            ELSE last[i - 1]
    IN IF possi.Arch # NoArch
       THEN [index |-> 0 - 1, err |-> "Arch is specified, but we're source! bad possi."]
       ELSE IF Len(candidates) = 0
       THEN [index |-> 0 - 1, err |-> "I have no idea what that source is!"]
       ELSE IF last[Len(candidates)] = 0 - 1
       THEN [index |-> 0 - 1, err |-> "No satisfactory dependency found"]
       ELSE [index |-> last[Len(candidates)], err |-> ""]

\* SourceMap.Matches: the index (from 0) of the first candidate whose version
\* satisfies the relation
Matches(s, possi) ==
    LET candidates == MapGet(s, possi.Name)
        first[i \in 1..Len(candidates) + 1] ==
            IF i > Len(candidates) THEN 0 - 1
            ELSE IF SatisfiedBy(possi.Version, candidates[i].Version) THEN i - 1
            ELSE first[i + 1]
    IN IF possi.Arch # NoArch
       THEN [index |-> 0 - 1, err |-> "Arch is specified, but we're source! bad possi."]
       ELSE IF Len(candidates) = 0
       THEN [index |-> 0 - 1, err |-> "I have no idea what that source is!"]
       ELSE IF first[1] = 0 - 1
       THEN [index |-> 0 - 1, err |-> "No satisfactory dependency found"]
       ELSE [index |-> first[1], err |-> ""]

\* a call of Matches on the SourceMap that LoadSourceMap returned
SourceMapMatches(possi) ==
    /\ mPc = "returned" /\ mKind = "SourceMap" /\ ~mOut.nil
    /\ mMatch' = <<[possi |-> possi, index |-> Matches(mOut.entries, possi).index,
                    err |-> Matches(mOut.entries, possi).err]>>
    /\ UNCHANGED <<mKind, mIn, mPos, mEnd, mRet, mPc, mOut, mErr>>

MapNext ==
    \/ LoadPackageMap /\ UNCHANGED <<pubVars, readVars, dlVars, foldVars, poolVars>>
    \/ LoadSourceMap /\ UNCHANGED <<pubVars, readVars, dlVars, foldVars, poolVars>>
    \/ \E possi \in Possibilities :
          SourceMapMatches(possi) /\ UNCHANGED <<pubVars, readVars, dlVars, foldVars, poolVars>>

(***************************************************************************)
(* The reader on the tree the publisher has linked.                        *)
(***************************************************************************)
\* Link has returned nil: every path of the map names its object
LinkComplete == lPc = "returned" /\ lErr = ""

\* what the reader's pathReader finds at a path of the published tree
PublishedFile(path) ==
    IF path \in Paths /\ links[path] # NoObj /\ links[path] \in objects
    THEN [found |-> TRUE, object |-> links[path]]
    ELSE [found |-> FALSE, object |-> NoObj]

\* dists/<name>/InRelease of the published tree, read with a keyring that
\* holds the publisher's key: the clearsigned Release, as encoded
PublishedDoc ==
    LET file == PublishedFile(InReleasePath) IN
    IF file.found
    THEN [fetchOk |-> TRUE, sigOk |-> TRUE, decodeOk |-> TRUE, release |-> file.object[2]]
    ELSE NoDoc

\* the reader's archive is pointed at the published tree
ServePublished ==
    /\ rDoc' = PublishedDoc
    /\ UNCHANGED <<rSuite, rSuiteErr, rRes>>

\* Suite.Packages(component, arch) of the reader, the file opened being
\* dists/<Release.Suite>/<suitePath> of the published tree
ReaderPackagesPublished(component, arch) ==
    LET file == PublishedFile(<<"dists", rSuite.Release.Suite>>
                                 \o PackagesFile(component, arch))
    IN ReaderPackages(component, arch, file.found,
                      IF file.found THEN file.object[3] ELSE <<>>)

\* the publisher's calls in the order add, Engross, Link, with Decruft only
\* once Link has returned, and the reader after that
RoundNext ==
    \/ ArchiveSuite /\ UNCHANGED <<readVars, dlVars, foldVars, mapVars, poolVars>>
    \/ \E name \in CompNames : SuiteComponent(name) /\ UNCHANGED <<readVars, dlVars, foldVars, mapVars, poolVars>>
    \/ \E name \in CompNames, pkg \in Package, ok \in BOOLEAN :
          AddPackage(name, pkg, ok) /\ UNCHANGED <<readVars, dlVars, foldVars, mapVars, poolVars>>
    \/ Engross /\ UNCHANGED <<readVars, dlVars, foldVars, mapVars, poolVars>>
    \/ LinkBegin /\ UNCHANGED <<readVars, dlVars, foldVars, mapVars, poolVars>>
    \/ \E path \in Paths, outcome \in {"ok", "io", "missing"} :
          LinkStep(path, outcome) /\ UNCHANGED <<readVars, dlVars, foldVars, mapVars, poolVars>>
    \/ LinkComplete /\ Decruft /\ UNCHANGED <<readVars, dlVars, foldVars, mapVars, poolVars>>
    \/ LinkComplete /\ ServePublished /\ UNCHANGED <<pubVars, dlVars, foldVars, mapVars, poolVars>>
    \/ /\ LinkComplete /\ rDoc = PublishedDoc
       /\ ReaderSuite(rDoc) /\ UNCHANGED <<pubVars, dlVars, foldVars, mapVars, poolVars>>
    \/ \E component \in CompNames, arch \in Arches :
          /\ LinkComplete
          /\ ReaderPackagesPublished(component, arch)
          /\ UNCHANGED <<pubVars, dlVars, foldVars, mapVars, poolVars>>

(***************************************************************************)
(* Pool: Copy, IncludeSources and IncludeDeb.                              *)
(***************************************************************************)
\* the local files the callers hand in, and what each of them holds
LocalFiles ==
    {<<"/tmp", "hello.dsc">>, <<"/tmp", "hello.orig.tar">>,
     <<"/tmp", "hello.debian.tar">>, <<"/tmp", "hello.deb">>}

LocalContent(file) ==
    IF file[2] = "hello.dsc" THEN <<"d">>
    ELSE IF file[2] = "hello.deb" THEN <<"b", "b">>
    ELSE <<"t">>

\* where Pool.Copy can fail: os.Open, getHashers, store.Create, io.Copy,
\* store.Commit; "none" is the run without a failure
CopyFailures == {"open", "hashers", "create", "copy", "commit"}

\* what the blobstore returns for the bytes committed
BlobObject(bytes) == [Hash |-> Digest("sha256", bytes)]

NilObject == [Hash |-> <<>>]

\* poolPrefix(source): path.Join(source[0:1], source)
poolPrefix(source) == <<IF source = "hello" THEN "h" ELSE "l", source>>

\* path.Base of a local file name
Base(file) == file[Len(file)]

\* Pool.Copy(path) = (obj, fileHashes, err): every failure returns
\* (nil, empty, nil); the run without one returns the committed object and
\* one FileHash per hasher of the suite
PoolCopy(path, fail) ==
    IF fail \in CopyFailures
    THEN [isNil |-> TRUE, obj |-> NilObject, hashes |-> {}, err |-> ""]
    ELSE [isNil |-> FALSE, obj |-> BlobObject(LocalContent(path)),
          hashes |-> {FileHashFromHasher(path, a, LocalContent(path)) :
                        a \in SuiteHashes},
          err |-> ""]

\* the blobs the store holds after the Copy: store.Commit adds one
PoolCommitted(path, fail) ==
    IF fail \in CopyFailures THEN pBlobs
    ELSE pBlobs \cup {BlobObject(LocalContent(path))}

\* the .dsc files and the .deb files the callers hand in
DSCs ==
    {[Source |-> "hello", Filename |-> <<"/tmp", "hello.dsc">>, Files |-> fs] :
        fs \in {<<>>, <<[Filename |-> <<"/tmp", "hello.orig.tar">>]>>,
                <<[Filename |-> <<"/tmp", "hello.orig.tar">>],
                  [Filename |-> <<"/tmp", "hello.debian.tar">>]>>}}

Debs ==
    {[Path |-> <<"/tmp", "hello.deb">>, SourceName |-> "hello",
      Package |-> pkg, Version |-> "1.0", Architecture |-> arch] :
        pkg \in {"hello", "libhello"}, arch \in Arches}

\* the pool path of a .deb: pool/<prefix>/<package>_<version>_<arch>.deb
DebPath(debFile) ==
    <<"pool">> \o poolPrefix(debFile.SourceName)
        \o <<debFile.Package, "_", debFile.Version, "_",
             debFile.Architecture, ".deb">>

NoPoolReturn == [path |-> <<>>, isNil |-> TRUE, err |-> ""]

NoPoolCopy == [path |-> <<>>, fail |-> "none",
               ret |-> [isNil |-> TRUE, obj |-> NilObject, hashes |-> {}, err |-> ""]]

PoolInit ==
    /\ pOp = "" /\ pPc = "idle"
    /\ pTodo = <<>> /\ pDir = <<>>
    /\ pFiles = <<>> /\ pLinked = {}
    /\ pStore = <<>> /\ pBefore = <<>>
    /\ pBlobs = {}
    /\ pCopy = NoPoolCopy
    /\ pRet = NoPoolReturn

PoolUnused == PoolInit

\* a path -> object mapping with path set to object: files[path] = object,
\* and what store.Link(object, path) makes of the store's mapping
PoolStoreLink(store, object, path) ==
    [q \in DOMAIN store \cup {path} |-> IF q = path THEN object ELSE store[q]]

\* Pool.IncludeSources(dsc), up to its first Copy
IncludeSources(dsc) ==
    /\ pPc \in {"idle", "returned"}
    /\ pOp' = "IncludeSources" /\ pPc' = "copy"
    /\ pDir' = <<"pool">> \o poolPrefix(dsc.Source)
    /\ pTodo' = [i \in 1..Len(dsc.Files) |-> dsc.Files[i].Filename]
                  \o <<dsc.Filename>>
    /\ pFiles' = <<>> /\ pLinked' = {}
    /\ pBefore' = pStore
    /\ pRet' = NoPoolReturn
    /\ UNCHANGED <<pStore, pBlobs, pCopy>>

\* one Copy of IncludeSources: an error returns it, a nil object makes
\* "*obj" panic, an object goes into files under targetDir/base
IncludeSourcesCopy(fail) ==
    /\ pPc = "copy"
    /\ LET file == Head(pTodo)
           c == PoolCopy(file, fail)
       IN /\ pCopy' = [path |-> file, fail |-> fail, ret |-> c]
          /\ pBlobs' = PoolCommitted(file, fail)
          /\ IF c.err # ""
             THEN /\ pPc' = "returned"
                  /\ pRet' = [path |-> <<>>, isNil |-> TRUE, err |-> c.err]
                  /\ UNCHANGED <<pTodo, pFiles>>
             ELSE IF c.isNil
             THEN /\ pPc' = "panicked"
                  /\ UNCHANGED <<pTodo, pFiles, pRet>>
             ELSE /\ pFiles' = PoolStoreLink(pFiles, c.obj, pDir \o <<Base(file)>>)
                  /\ pTodo' = Tail(pTodo)
                  /\ pPc' = IF Tail(pTodo) = <<>> THEN "link" ELSE "copy"
                  /\ pRet' = pRet
    /\ UNCHANGED <<pOp, pDir, pLinked, pStore, pBefore>>

\* one pass of "for path, object := range files": store.Link, whose error
\* returns the call; the map is ranged over in any order
IncludeSourcesLink(path, ok) ==
    /\ pPc = "link"
    /\ path \in DOMAIN pFiles \ pLinked
    /\ IF ok
       THEN /\ pStore' = PoolStoreLink(pStore, pFiles[path], path)
            /\ pLinked' = pLinked \cup {path}
            /\ IF pLinked' = DOMAIN pFiles
               THEN /\ pPc' = "returned"
                    /\ pRet' = [path |-> pDir, isNil |-> FALSE, err |-> ""]
               ELSE UNCHANGED <<pPc, pRet>>
       ELSE /\ pPc' = "returned"
            /\ pRet' = [path |-> <<>>, isNil |-> TRUE, err |-> StoreError]
            /\ UNCHANGED <<pStore, pLinked>>
    /\ UNCHANGED <<pOp, pDir, pTodo, pFiles, pBefore, pBlobs, pCopy>>

\* Pool.IncludeDeb(debFile): Copy, then "*obj" in the call of store.Link
IncludeDeb(debFile, fail, ok) ==
    /\ pPc \in {"idle", "returned"}
    /\ pOp' = "IncludeDeb"
    /\ pDir' = <<>> /\ pTodo' = <<>> /\ pFiles' = <<>>
    /\ pBefore' = pStore
    /\ LET c == PoolCopy(debFile.Path, fail)
       IN /\ pCopy' = [path |-> debFile.Path, fail |-> fail, ret |-> c]
          /\ pBlobs' = PoolCommitted(debFile.Path, fail)
          /\ IF c.err # ""
             THEN /\ pPc' = "returned"
                  /\ pRet' = [path |-> <<>>, isNil |-> TRUE, err |-> c.err]
                  /\ pLinked' = {}
                  /\ pStore' = pStore
             ELSE IF c.isNil
             THEN /\ pPc' = "panicked"
                  /\ pRet' = NoPoolReturn
                  /\ pLinked' = {}
                  /\ pStore' = pStore
             ELSE /\ pPc' = "returned"
                  /\ pLinked' = IF ok THEN {DebPath(debFile)} ELSE {}
                  /\ pStore' = IF ok THEN PoolStoreLink(pStore, c.obj, DebPath(debFile))
                               ELSE pStore
                  /\ pRet' = [path |-> DebPath(debFile), isNil |-> FALSE,
                              err |-> IF ok THEN "" ELSE StoreError]

PoolNext ==
    \/ \E dsc \in DSCs :
          IncludeSources(dsc) /\ UNCHANGED <<pubVars, readVars, dlVars, foldVars, mapVars>>
    \/ \E fail \in CopyFailures \cup {"none"} :
          IncludeSourcesCopy(fail) /\ UNCHANGED <<pubVars, readVars, dlVars, foldVars, mapVars>>
    \/ \E path \in DOMAIN pFiles, ok \in BOOLEAN :
          IncludeSourcesLink(path, ok) /\ UNCHANGED <<pubVars, readVars, dlVars, foldVars, mapVars>>
    \/ \E debFile \in Debs, fail \in CopyFailures \cup {"none"}, ok \in BOOLEAN :
          IncludeDeb(debFile, fail, ok) /\ UNCHANGED <<pubVars, readVars, dlVars, foldVars, mapVars>>

(***************************************************************************)
(* Specifications.                                                         *)
(***************************************************************************)
\* the reader on its own: the publisher's state stays as constructed
\* and the archive serves some InRelease document
InitRead ==
    /\ PubInit /\ ~signingKey /\ links = [p \in Paths |-> NoObj]
    /\ rDoc \in Docs
    /\ rSuite = NoSuite
    /\ rSuiteErr = NoError
    /\ rRes = NoRes
    /\ DlUnused
    /\ FoldUnused /\ MapUnused /\ PoolUnused

SpecRead == InitRead /\ [][ReadNext]_vars

\* the publisher on its own: the reader's state stays as constructed
Init == PubInit /\ ReadInit /\ DlUnused /\ FoldUnused /\ MapUnused /\ PoolUnused

SpecPub == Init /\ [][PubNext]_vars

\* the Downloader on its own, called by the goroutines
InitDl ==
    /\ PubInit /\ ~signingKey /\ links = [p \in Paths |-> NoObj]
    /\ ReadInit
    /\ DlInit
    /\ FoldUnused /\ MapUnused /\ PoolUnused

SpecDl == InitDl /\ [][DlNext]_vars

\* the publisher with a signing key on an empty store, and the reader on the
\* tree once Link has returned
InitRound ==
    /\ PubInit /\ signingKey /\ links = [p \in Paths |-> NoObj]
    /\ ReadInit
    /\ DlUnused
    /\ FoldUnused /\ MapUnused /\ PoolUnused

SpecRound == InitRound /\ [][RoundNext]_vars

\* a step of the call the goroutine p is in
ProcStep(p) ==
    /\ \/ \E keyringOk \in BOOLEAN, verifierOk \in BOOLEAN :
             DownloaderInit(p, keyringOk, verifierOk)
       \/ PoolLock(p)
       \/ \E ok \in BOOLEAN : CreateTemp(p, ok)
       \/ \E outcome \in OpenOutcomes(dCfg.LocalMirror) : OpenAttempt(p, outcome)
       \/ \E served \in ServedBytes, ioOk \in BOOLEAN : Stream(p, served, ioOk)
       \/ \E sigOk \in BOOLEAN, decodeOk \in BOOLEAN, byHash \in BOOLEAN,
             statOk \in BOOLEAN :
             LoadRelease(p, [fetchOk |-> TRUE,
                             signed |-> ~HasSuffixStable(dProc[p].suite),
                             sigOk |-> sigOk, decodeOk |-> decodeOk,
                             release |-> DlRelease(dProc[p].suite, byHash)], statOk)
       \/ CachedReleaseStore(p)
    /\ UNCHANGED <<pubVars, readVars, foldVars, mapVars, poolVars>>

\* the Downloader with goroutines that are scheduled: a goroutine that can
\* take a step of its call takes one, and a sender blocked on the pool's
\* channel gets its turn when the channel has room again and again
SpecDlFair ==
    /\ InitDl
    /\ [][DlNext]_vars
    /\ \A p \in Procs : WF_vars(ProcStep(p))
    /\ \A p \in Procs :
          SF_vars(PoolLock(p) /\ UNCHANGED <<pubVars, readVars, foldVars, mapVars, poolVars>>)

\* the hasher loop on its own, over each list of hashers
InitFold ==
    /\ PubInit /\ ~signingKey /\ links = [p \in Paths |-> NoObj]
    /\ ReadInit
    /\ DlUnused
    /\ FoldInit /\ MapUnused /\ PoolUnused

SpecFold == InitFold /\ [][FoldNext]_vars

\* the loaders and Matches on their own, over each iterator
InitMap ==
    /\ PubInit /\ ~signingKey /\ links = [p \in Paths |-> NoObj]
    /\ ReadInit
    /\ DlUnused
    /\ FoldUnused /\ MapInit /\ PoolUnused

SpecMap == InitMap /\ [][MapNext]_vars

\* the Pool on its own, called again after each return
InitPool ==
    /\ PubInit /\ ~signingKey /\ links = [p \in Paths |-> NoObj]
    /\ ReadInit
    /\ DlUnused
    /\ FoldUnused /\ MapUnused /\ PoolInit

SpecPool == InitPool /\ [][PoolNext]_vars

(***************************************************************************)
(* The publisher's properties.                                             *)
(***************************************************************************)
\* the index paths of the map Link was given
LinkIndexPaths == DOMAIN lBlobs \cap IndexPaths
\* the paths of the map this Link has linked so far
LinkDone == DOMAIN lBlobs \ lTodo

C2_ReleaseNeverAheadOfIndices ==
    (lPc = "linking" /\ (\/ ReleasePath \in LinkDone
                         \/ InReleasePath \in LinkDone))
        => \A p \in LinkIndexPaths : links[p] = lBlobs[p]

\* C3: the store.Link calls of one Link come in the order: every index path,
\* then Release, then Release.gpg, then InRelease.
C3_LinkOrder ==
    lPc \in {"linking", "returned"} =>
        /\ ReleasePath \in LinkDone => LinkIndexPaths \subseteq LinkDone
        /\ ReleaseGpgPath \in LinkDone => ReleasePath \in LinkDone
        /\ InReleasePath \in LinkDone => ReleaseGpgPath \in LinkDone

\* C4: when Link has returned, with an error or without, either every path
\* of the map is linked to its new object or every path of the map is linked
\* to what it was linked to before the call.
C4_LinkAllOrNothing ==
    lPc = "returned" =>
        \/ \A p \in DOMAIN lBlobs : links[p] = lBlobs[p]
        \/ \A p \in DOMAIN lBlobs : links[p] = lBefore[p]

C6_DecruftKeepsEngrossed ==
    (ePc = "returned" /\ eErr = "" /\ lPc = "idle")
        => \A p \in DOMAIN eFiles : eFiles[p] \in objects

ReadRelease == rSuite.Release
\* the hashes that call's verifier held
ReadHashes == IndexHashes(ReadRelease, rRes.file)
\* the bytes served differ from what some declared hash was computed over
Differs(hashes, bytes) ==
    \E h \in hashes : h.Digest # Digest(h.Algorithm, bytes) \/ h.Size # Len(bytes)
\* the Release has a SHA256 or SHA512 line for the file
StrongDeclared(r, file) == \E h \in r.SHA256 \cup r.SHA512 : h.Filename = file
\* the Release has an MD5Sum or SHA1 line for the file
WeakDeclared(r, file) == \E h \in r.MD5Sum \cup r.SHA1 : h.Filename = file
\* the component and architecture of the last call are listed in the Release
Listed ==
    /\ HasComponent(ReadRelease, rRes.file[1])
    /\ rRes.op = "Packages" => HasArch(ReadRelease, rRes.file[3])

\* C8 (as stated): a Packages or Sources call whose streamed bytes differ
\* from what the Release declared fails with the hash-mismatch error and
\* returns no entries.
C8_MismatchIsHashMismatch ==
    (rRes.op \in {"Packages", "Sources"} /\ rRes.streamed /\ Differs(ReadHashes, rRes.served))
        => rRes.err = HashMismatch /\ rRes.entries = <<>>

\* C8 (amended): a Packages or Sources call whose streamed bytes differ from
\* what the Release declared fails, with the hash-mismatch error or with the
\* decoder's error when the bytes do not decode, and returns no entries; a
\* call returns without error only when every declared hash agrees with the
\* streamed bytes in digest and size.
C8_MismatchReturnsNoEntries ==
    /\ (rRes.op \in {"Packages", "Sources"} /\ rRes.streamed /\ Differs(ReadHashes, rRes.served))
          => rRes.err \in {HashMismatch, DecodeError} /\ rRes.entries = <<>>
    /\ (rRes.op \in {"Packages", "Sources"} /\ rRes.err = NoError)
          => /\ ReadHashes # {}
             /\ ~Differs(ReadHashes, rRes.served)
             /\ rRes.entries = DecodeAll(rRes.served).entries

\* C8 witness: paragraphs were decoded from bytes that differ from the
\* declared ones, and the call failed with the hash-mismatch error.
C8_Witness ==
    /\ rRes.op = "Packages" /\ rRes.streamed
    /\ Differs(ReadHashes, rRes.served)
    /\ DecodeAll(rRes.served).err = NoError /\ DecodeAll(rRes.served).entries # <<>>
    /\ rRes.err = HashMismatch /\ rRes.entries = <<>>

\* C9 (as stated): a Packages or Sources call for a file with no SHA256 or
\* SHA512 line in the Release returns 'Undeclared file in InRelease' without
\* opening the file.
C9_NoStrongHashIsUndeclared ==
    (rRes.op \in {"Packages", "Sources"} /\ ~StrongDeclared(ReadRelease, rRes.file))
        => rRes.err = Undeclared /\ ~rRes.opened

\* C9 (amended): a Packages or Sources call for a file with no SHA256 or
\* SHA512 line in the Release fails without opening the file and returns no
\* entries, whatever MD5Sum or SHA1 lines there are; the error is 'Undeclared
\* file in InRelease' when the component (and for Packages the architecture)
\* is listed in the Release, and the 'No such component' / 'No such arch'
\* error otherwise.
C9_NoStrongHashNeverOpened ==
    (rRes.op \in {"Packages", "Sources"} /\ ~StrongDeclared(ReadRelease, rRes.file))
        => /\ ~rRes.opened /\ ~rRes.streamed /\ rRes.entries = <<>>
           /\ Listed => rRes.err = Undeclared
           /\ ~Listed => rRes.err \in {NoSuchComponent, NoSuchArch}

\* C9 witness: the Release declares the file under MD5Sum or SHA1 only, the
\* component and architecture are listed, and Packages returned the
\* undeclared-file error without opening it.
C9_Witness ==
    /\ rRes.op = "Packages" /\ Listed
    /\ WeakDeclared(ReadRelease, rRes.file) /\ ~StrongDeclared(ReadRelease, rRes.file)
    /\ rRes.err = Undeclared /\ ~rRes.opened

InGate == {p \in Procs : dProc[p].pc \in {"tempfile", "open", "stream"}}

\* C11: at every moment at most Parallel goroutines are inside the gated
\* section of tempFileWithFilename, and the pool's channel holds one value
\* for each of them.
C11_AtMostParallelInside ==
    /\ Cardinality(InGate) <= dCfg.Parallel
    /\ dPool = Cardinality(InGate)

\* C11 witness: with Parallel = 1, one goroutine is streaming inside the
\* gate while another one is held at g.pool.lock().
C11_Witness ==
    /\ dCfg.Parallel = 1
    /\ \E p \in Procs, q \in Procs :
          /\ p # q
          /\ dProc[p].pc = "stream"
          /\ dProc[q].pc = "lock"
          /\ ~ENABLED PoolLock(q)

\* C12: with MaxTransientRetries = N >= 1, one call makes at most N + 1 open
\* attempts, and when a TempFile or Release call returns the transient error
\* (every attempt having failed transiently) it has made exactly N + 1.
C12_AtMostNPlusOneAttempts ==
    \A p \in Procs :
        dCfg.MaxTransientRetries >= 1 =>
            /\ dProc[p].attempts <= dCfg.MaxTransientRetries + 1
            /\ (dProc[p].op # "CachedRelease" /\ dProc[p].err = TransientError)
                  => /\ dProc[p].attempts = dCfg.MaxTransientRetries + 1
                     /\ dProc[p].file = NoFile
                     /\ dProc[p].pc \notin {"tempfile", "open", "stream"}

\* C12 witness: with MaxTransientRetries = MaxRetries a TempFile call has
\* returned the transient error after MaxRetries + 1 attempts.
C12_Witness ==
    /\ dCfg.MaxTransientRetries = MaxRetries
    /\ \E p \in Procs :
          /\ dProc[p].op = "TempFile" /\ dProc[p].pc = "done"
          /\ dProc[p].err = TransientError
          /\ dProc[p].attempts = MaxRetries + 1

\* C13: with MaxTransientRetries = 0 transient errors are retried without
\* limit, so a TempFile or Release call never returns the transient error.
C13_ZeroMeansRetryForever ==
    \A p \in Procs :
        (dCfg.MaxTransientRetries = 0 /\ dProc[p].op # "CachedRelease")
            => dProc[p].err # TransientError

\* the errors of g.open that are not transient
NonTransient == {StatusError, FileError, LastModifiedError}

\* C14: an open attempt that fails with an error that is not transient ends
\* the call at once, whatever MaxTransientRetries is: the call returns that
\* error and no file, its temporary file is removed, and no further attempt
\* is made (exactly one attempt when the first one fails so).
C14_NonTransientNeverRetried ==
    [][\A p \in Procs, outcome \in NonTransient :
          OpenAttempt(p, outcome) =>
              /\ dProc'[p].pc \notin {"tempfile", "open", "stream", "load"}
              /\ dProc'[p].err = outcome
              /\ dProc'[p].file = NoFile
              /\ dProc'[p].attempts = dProc[p].attempts + 1
              /\ dProc[p].attempts = dProc[p].retry
              /\ p \notin dTemp']_vars

\* C14 witness: with retries allowed, a TempFile call has returned the
\* HTTP status error after its one and only open attempt.
C14_Witness ==
    /\ dCfg.MaxTransientRetries = MaxRetries
    /\ \E p \in Procs :
          /\ dProc[p].op = "TempFile" /\ dProc[p].pc = "done"
          /\ dProc[p].err = StatusError
          /\ dProc[p].attempts = 1

\* the calls that hand a downloaded file to their caller
FileCalls == {"TempFile", "RDTempFile"}

\* C15: Downloader.TempFile and ReleaseDownloader.TempFile return a file only
\* when the verifier built from the caller's FileHash accepted all the bytes
\* streamed, and then without error; when verifier.Close reports a mismatch
\* the call has returned the error and no file, after a single streaming.
C15_FailClosed ==
    \A p \in Procs :
        dProc[p].op \in FileCalls =>
            /\ dProc[p].file.exists
                  => /\ dProc[p].pc = "done" /\ dProc[p].err = ""
                     /\ dProc[p].verifier = FhVerifier(dProc[p].fh)
                     /\ dProc[p].file.bytes = dProc[p].served
                     /\ VerifierAccepts(FhVerifier(dProc[p].fh), dProc[p].served)
            /\ (dProc[p].pc = "done" /\ dProc[p].err = "")
                  => dProc[p].file.exists
            /\ dProc[p].err = VerifyError
                  => /\ dProc[p].pc = "done" /\ ~dProc[p].file.exists
                     /\ dProc[p].attempts = dProc[p].retry + 1

\* C15 witness: upstream served bytes other than the declared ones to a
\* ReleaseDownloader.TempFile call, which returned the verification error
\* and no file.
C15_Witness ==
    \E p \in Procs :
        /\ dProc[p].op = "RDTempFile" /\ dProc[p].pc = "done"
        /\ dProc[p].served # DeclaredBytes
        /\ dProc[p].err = VerifyError /\ ~dProc[p].file.exists

\* C16: when verification fails in Downloader.TempFile, the temporary file
\* made for the download no longer exists when the call has returned.
C16_TempFileDeletedOnMismatch ==
    \A p \in Procs :
        (dProc[p].op = "TempFile" /\ dProc[p].pc = "done" /\ dProc[p].err = VerifyError)
            => p \notin dTemp

\* C17: CachedRelease makes one DefaultDownloader.Release call per suite
\* name, however many goroutines call it and however they interleave.
C17_OneFetchPerSuite == \A suite \in DlSuites : dFetches[suite] <= 1

\* C18: Downloader.Release has returned a Release and a ReleaseDownloader
\* only when the document it fetched carried an OpenPGP signature that
\* checked against the loaded archive keyring (and decoded), for every suite
\* name, those ending in "stable" included.
C18_ReleaseOnlyWhenVerified ==
    \A p \in Procs :
        (dProc[p].op = "Release" /\ dProc[p].pc = "done" /\ dProc[p].rrd.present)
            => /\ dProc[p].doc.signed /\ dProc[p].doc.sigOk /\ dKeyring
               /\ dProc[p].doc.decodeOk

\* C19: ReleaseDownloader.TempFile(fh) asks for the by-hash path of fh exactly
\* when the Release its ReleaseDownloader came with had Acquire-By-Hash set,
\* and for dists/<suite>/<fh.Filename> otherwise; either way the decompressor
\* is the one for the extension of fh.Filename and the verifier is fh's.
C19_ByHashExactlyWhenAcquireByHash ==
    /\ \A p \in Procs :
          (dProc[p].op = "RDTempFile" /\ dProc[p].err # VerifierError) =>
              LET me == dProc[p]
                  canonical == <<"dists", me.rd.suite>> \o me.fh.Filename
                  dir == SubSeq(canonical, 1, Len(canonical) - 1)
              IN /\ me.rd \in dRDs
                 /\ me.fn = IF me.rd.acquireByHash
                            THEN dir \o <<"by-hash", me.fh.Algorithm, me.fh.Digest>>
                            ELSE canonical
                 /\ me.decomp = (IF me.fh.Filename[Len(me.fh.Filename)] = "Packages.gz"
                                 THEN ".gz" ELSE "")
                 /\ me.verifier = [kind |-> "fh", fh |-> me.fh]
    /\ \A p \in Procs :
          dProc[p].rrd.present =>
              /\ dProc[p].rrd.acquireByHash = dProc[p].r.AcquireByHash
              /\ dProc[p].rrd.suite = dProc[p].suite

\* C19 witness: a ReleaseDownloader whose Release had Acquire-By-Hash set
\* fetched Packages.gz by its by-hash path, decompressed as .gz, and returned
\* the verified file.
C19_Witness ==
    \E p \in Procs :
        /\ dProc[p].op = "RDTempFile" /\ dProc[p].pc = "done"
        /\ dProc[p].file.exists
        /\ dProc[p].rd.acquireByHash
        /\ dProc[p].fh.Filename = <<"main", "binary-amd64", "Packages.gz">>
        /\ dProc[p].fn[Len(dProc[p].fn) - 2] = "by-hash"
        /\ dProc[p].decomp = ".gz"

\* C20: when Engross has returned its map, every index path of the map has,
\* in the Release engrossed by the same call, a SHA256 or SHA512 entry under
\* its suite-relative path, computed over the bytes of the object at the path.
C20_IndexHasStrongHash ==
    (ePc = "returned" /\ eErr = "") =>
        /\ eFiles[ReleasePath] = ReleaseObject(eRelease)
        /\ \A c \in CompNames, a \in Arches :
              IndexPath(c, a) \in DOMAIN eFiles =>
                  \E h \in eRelease.SHA256 \cup eRelease.SHA512 :
                      /\ h.Filename = SuitePath(c, a)
                      /\ h.Algorithm \in StrongAlgorithms
                      /\ h.Digest = Digest(h.Algorithm, eFiles[IndexPath(c, a)][3])
                      /\ h.Size = Len(eFiles[IndexPath(c, a)][3])

\* C20 witness: Engross has returned a map with the index paths of two
\* architectures of main.
C20_Witness ==
    /\ ePc = "returned" /\ eErr = ""
    /\ \A a \in Arches : IndexPath("main", a) \in DOMAIN eFiles
    /\ eRelease.SHA256 # {}

(***************************************************************************)
(* The publisher's indices and Release, continued.                         *)
(***************************************************************************)
\* the hash list of the Release that AddHash fills for an algorithm
HashList(r, algorithm) ==
    CASE algorithm = "sha256" -> r.SHA256
      [] algorithm = "sha1" -> r.SHA1
      [] algorithm = "sha512" -> r.SHA512
      [] algorithm = "md5" -> r.MD5Sum
      [] OTHER -> {}

Elements(q) == {q[i] : i \in DOMAIN q}

C24_EngrossMapKeys ==
    (ePc = "returned" /\ eErr = "") =>
        /\ DOMAIN eFiles = {IndexPath(k[1], k[2]) : k \in DOMAIN writers}
                               \cup {ReleasePath, ReleaseGpgPath, InReleasePath}
        /\ \A k \in DOMAIN writers :
              eFiles[IndexPath(k[1], k[2])] = PackagesObject(k[2], writers[k].handle)
        /\ eFiles[ReleaseGpgPath] = SignatureObject(eRelease)
        /\ eFiles[InReleasePath] = InReleaseObject(eRelease)
        /\ eFiles[ReleasePath] = ReleaseObject(eRelease)

\* C24 witness: Engross has returned a map of four keys, one of them the
\* index of (main, i386) alone.
C24_Witness ==
    /\ ePc = "returned" /\ eErr = ""
    /\ DOMAIN writers = {<<"main", "i386">>}
    /\ Cardinality(DOMAIN eFiles) = 4

\* C25: a call of Suite.Component registers the name if the suite does not
\* have it and reports a created component only then; whether or not the
\* suite has the name, the call leaves every package writer, of this and of
\* every other component, as it was, and drops no component.
C25_ComponentIsGetOrCreate ==
    [][\A name \in CompNames :
          SuiteComponent(name) =>
              /\ writers' = writers
              /\ components' = components \cup {name}
              /\ cHandle'.name = name
              /\ cHandle'.created = (name \notin components)]_vars

\* C25 witness: Suite.Component has returned a handle of a component that
\* already had a writer with a package.
C25_Witness ==
    /\ cHandle = [name |-> "main", created |-> FALSE]
    /\ \E k \in DOMAIN writers : k[1] = "main" /\ Len(writers[k].handle) > 0

C28_StrictlyDescending ==
    \A name \in DOMAIN mRet :
        \A i \in 1..(Len(mRet[name]) - 1) :
            Compare(mRet[name][i].Version, mRet[name][i + 1].Version) > 0

\* C28: after every insertion by a loader, for any order of insertion, no
\* entry of a name's slice has a version less than the next one's, and each
\* is greater than the next when the name's entries have distinct versions.
C28_Descending ==
    \A name \in DOMAIN mRet :
        /\ \A i \in 1..(Len(mRet[name]) - 1) :
              Compare(mRet[name][i].Version, mRet[name][i + 1].Version) >= 0
        /\ (\A i, j \in DOMAIN mRet[name] :
                i # j => mRet[name][i].Version # mRet[name][j].Version)
              => \A i \in 1..(Len(mRet[name]) - 1) :
                    Compare(mRet[name][i].Version, mRet[name][i + 1].Version) > 0

\* C28 witness: three entries of one name and of three versions have been
\* inserted into a map.
C28_Witness ==
    /\ mPos = 3
    /\ \E name \in DOMAIN mRet :
          /\ Len(mRet[name]) = 3
          /\ {mRet[name][i].Version : i \in 1..3} = MapVersions

Occurrences(q, e) == Cardinality({i \in DOMAIN q : q[i] = e})

\* C30: a loader returns only when Next has returned every entry and then
\* its last error; when that is io.EOF the loader returns a nil error and a
\* map that holds, under each package name, the entries of that name the
\* iterator returned, each as often as it was returned, and nothing else;
\* when it is another error the loader returns a nil map and that error.
C30_AllEntriesOrNil ==
    mPc = "returned" =>
        /\ mPos = Len(mIn)
        /\ IF mEnd = EOF
           THEN /\ mErr = ""
                /\ ~mOut.nil
                /\ DOMAIN mOut.entries = {mIn[i].Package : i \in DOMAIN mIn}
                /\ \A name \in DOMAIN mOut.entries, e \in MapEntries :
                      Occurrences(mOut.entries[name], e) =
                          IF e.Package = name THEN Occurrences(mIn, e) ELSE 0
           ELSE /\ mErr = mEnd
                /\ mOut = NilMap

\* C30 witness: LoadSourceMap has returned nil and the error Next returned
\* after two entries.
C30_Witness ==
    /\ mPc = "returned" /\ mKind = "SourceMap"
    /\ mErr = DecodeError /\ mOut.nil
    /\ Len(mIn) = 2 /\ DOMAIN mRet # {}

(***************************************************************************)
(* Properties of the release cache.                                        *)
(***************************************************************************)
\* what a goroutine's call has returned, or is about to store
Triple(me) == <<me.r, me.rrd, me.err>>
\* what the cache holds for a suite
CachedTriple(suite) == <<dCache[suite].r, dCache[suite].rd, dCache[suite].err>>

\* C32 as stated: every caller that completes its own fetch leaves its own
\* result in the cache, so that of two callers that both missed, the second
\* writer's result is the one kept.
C32_SecondWriterKept ==
    [][\A p \in Procs :
          CachedReleaseStore(p) =>
              CachedTriple(dProc[p].suite)' = Triple(dProc[p])]_vars

\* C32: of two callers that both missed the cache and both completed a
\* fetch, the first to reach the end of CachedRelease stores its result; the
\* second finds the entry, leaves the cache as it is and returns the stored
\* values in place of its own.
C32_FirstWriterKept ==
    [][\A p \in Procs :
          CachedReleaseStore(p) =>
              IF dCache[dProc[p].suite].present
              THEN /\ dCache' = dCache
                   /\ Triple(dProc'[p]) = CachedTriple(dProc[p].suite)
              ELSE /\ CachedTriple(dProc[p].suite)' = Triple(dProc[p])
                   /\ Triple(dProc'[p]) = Triple(dProc[p])]_vars

\* C32 witness: two callers of CachedRelease for one suite have both fetched
\* and returned; one fetch had failed and the other had not.
C32_Witness ==
    \E p \in Procs, q \in Procs :
        /\ p # q
        /\ dProc[p].op = "CachedRelease" /\ dProc[q].op = "CachedRelease"
        /\ dProc[p].suite = dProc[q].suite
        /\ dProc[p].pc = "done" /\ dProc[q].pc = "done"
        /\ dFetches[dProc[p].suite] = 2
        /\ dProc[p].attempts > 0 /\ dProc[q].attempts > 0
        /\ dProc[p].doc # dProc[q].doc

\* C33: every call of CachedRelease that has returned has returned the
\* triple the cache holds for its suite, so all calls for one suite return
\* the same triple.
C33_SameTripleForAll ==
    \A p \in Procs :
        (dProc[p].op = "CachedRelease" /\ dProc[p].pc = "done") =>
            /\ dCache[dProc[p].suite].present
            /\ Triple(dProc[p]) = CachedTriple(dProc[p].suite)

\* C33 witness: two callers of CachedRelease for one suite both made a fetch
\* and both have returned a ReleaseDownloader.
C33_Witness ==
    \E p \in Procs, q \in Procs :
        /\ p # q
        /\ dProc[p].op = "CachedRelease" /\ dProc[q].op = "CachedRelease"
        /\ dProc[p].suite = dProc[q].suite
        /\ dProc[p].pc = "done" /\ dProc[q].pc = "done"
        /\ dFetches[dProc[p].suite] = 2
        /\ dProc[p].rrd.present /\ dProc[q].rrd.present

\* C34: an entry of the release cache, whether it holds a Release or an
\* error, is never replaced or removed, and once it is there no call of
\* CachedRelease for its suite starts a fetch.
C34_EntryIsFinal ==
    [][\A suite \in DlSuites :
          dCache[suite].present =>
              /\ dCache'[suite] = dCache[suite]
              /\ dFetches'[suite] = dFetches[suite]]_vars

\* C34 witness: the cache holds an error for a suite, and a call that found
\* it there has returned that error without a fetch.
C34_Witness ==
    \E p \in Procs :
        /\ dProc[p].op = "CachedRelease" /\ dProc[p].pc = "done"
        /\ dProc[p].attempts = 0 /\ dFetches[dProc[p].suite] = 1
        /\ dCache[dProc[p].suite].present
        /\ dCache[dProc[p].suite].err \in {TransientError, LoadError}
        /\ dProc[p].err = dCache[dProc[p].suite].err

(***************************************************************************)
(* Properties of the pool and of init.                                     *)
(***************************************************************************)
\* C36: a goroutine that has left tempFileWithFilename, by whichever return,
\* holds no slot: the slots taken are as many as the goroutines that have
\* passed g.pool.lock() and not yet returned, and when every call has
\* returned (or none has begun) the pool's channel is empty.
C36_SlotReleasedOnEveryExit ==
    /\ dPool = Cardinality({p \in Procs : dProc[p].pc \in {"tempfile", "open", "stream"}})
    /\ (\A p \in Procs : dProc[p].pc \in {"idle", "done"}) => dPool = 0
    /\ \A p \in Procs :
          dProc[p].pc \in {"load", "store", "done"} => p \notin InGate

\* C36 witness: one call has returned the error of ioutil.TempFile and
\* another the error of a failed copy, and no slot is held.
C36_Witness ==
    /\ dPool = 0
    /\ \E p \in Procs, q \in Procs :
          /\ dProc[p].pc = "done" /\ dProc[p].err = TempFileError
          /\ dProc[q].pc = "done" /\ dProc[q].err = StreamError

\* C37: whatever non-negative value Parallel has, a goroutine that has
\* reached g.pool.lock() gets a slot and its tempFileWithFilename returns.
C37_EveryCallReturns ==
    \A p \in Procs :
        (dProc[p].pc = "lock") ~> (dProc[p].pc \in {"load", "store", "done"})

\* C38: when loading the archive keyring failed in the first init, every
\* call of TempFile and of Release on the Downloader has returned an error.
C38_KeyringFailureReportedToAll ==
    \A p \in Procs :
        (/\ dOnce /\ ~dKeyring
         /\ dProc[p].op \in {"TempFile", "Release"}
         /\ dProc[p].pc = "done") => dProc[p].err # ""

\* C35: a Component has at most one PackageWriter per architecture: the
\* AddPackage call that finds none for the architecture of its package
\* creates it with one store.Create and registers it, every later call for
\* that architecture reuses the registered writer without a store.Create,
\* and when the creation fails no writer is registered and AddPackage
\* returns the error.
C35_OneWriterPerArchitecture ==
    [][\A name \in CompNames, pkg \in Package, ok \in BOOLEAN :
          AddPackage(name, pkg, ok) =>
              LET k == <<name, pkg.Architecture>> IN
              IF k \in DOMAIN writers
              THEN /\ lastCall' = {}
                   /\ DOMAIN writers' = DOMAIN writers
                   /\ SubSeq(writers'[k].handle, 1, Len(writers[k].handle))
                         = writers[k].handle
                   /\ aErr' = ""
              ELSE /\ lastCall' = {"Create"}
                   /\ IF ok
                      THEN /\ DOMAIN writers' = DOMAIN writers \cup {k}
                           /\ aErr' = ""
                      ELSE /\ writers' = writers
                           /\ aErr' # ""
      ]_vars

\* C35 witness: the writer of one architecture has been reused by a second
\* AddPackage, and the AddPackage that had to create the writer of another
\* architecture has just failed, leaving none registered.
C35_Witness ==
    /\ aErr = StoreError /\ lastCall = {"Create"}
    /\ \E k \in DOMAIN writers : Len(writers[k].handle) = 2
    /\ \E k \in WriterKeys : k[1] \in components /\ k \notin DOMAIN writers

\* C31: every Pool.Copy that ran without a failure has returned an object
\* together with the FileHash set and no error, every Pool.Copy in which
\* opening the local file, building the hashers, creating the blob, copying
\* or committing failed has returned an error, and none has returned a nil
\* object with a nil error.
C31_CopyErrorOnEveryFailure ==
    pCopy.path # <<>> =>
        /\ pCopy.fail = "none" =>
              /\ ~pCopy.ret.isNil /\ pCopy.ret.err = ""
              /\ pCopy.ret.hashes # {}
        /\ pCopy.fail \in CopyFailures => pCopy.ret.err # ""
        /\ ~(pCopy.ret.isNil /\ pCopy.ret.err = "")

\* C39: IncludeDeb and IncludeSources link a path only when every Pool.Copy
\* of the call has succeeded; a call in which a Copy failed has returned an
\* error and has left the store's mapping as it was; and IncludeSources has
\* copied every companion file and the .dsc before it links any.
C39_LinkOnlyAfterEveryCopy ==
    /\ pLinked # {} => (pTodo = <<>> /\ pCopy.fail = "none")
    /\ (pOp # "" /\ pCopy.fail \in CopyFailures) =>
          /\ pPc = "returned" /\ pRet.err # ""
          /\ pStore = pBefore
    /\ pPc = "link" => pTodo = <<>>

====
